---------------------------- MODULE Spec2Model ----------------------------
(***************************************************************************)
(* Model of the render-pulse-svg viewport-fitting pipeline                 *)
(* (renderPulseSvg.ts): the padding-expansion render loop of               *)
(* renderVegaLiteToSvg, the markup scan of calculateSvgContentBounds and   *)
(* the viewBox rewrite of adjustSvgViewBox.                                *)
(*                                                                         *)
(* Numbers.  JavaScript numbers are modelled as exact fixed-point values:  *)
(*  - geometry (shape attributes, content bounds, viewBox) in units of     *)
(*    1/Res pixel, shapes drawn at whole pixels, so that the 2 % margin    *)
(*    (contentWidth * 0.02) is exact;                                      *)
(*  - reported bounds and padding in units of 1/SubPx pixel, so that       *)
(*    fractional overflow and Math.ceil are represented.                   *)
(* NaN arises only from parseFloat of a non-numeric shape attribute; a box  *)
(* records which of its fields are NaN.  The markup given to               *)
(* adjustSvgViewBox has numeric attributes.  Floating-point rounding is     *)
(* outside the model.                                                      *)
(***************************************************************************)
EXTENDS Integers, Sequences, FiniteSets, TLC

VARIABLES
    svg,             \* the markup the pipeline currently holds
    fitInput,        \* the markup last passed to adjustSvgViewBox
    fitCount,        \* number of adjustSvgViewBox applications so far
    origSvg,         \* the markup the fitter was first given
    pc,              \* position of renderVegaLiteToSvg
    attempt,         \* loop counter of the render loop
    currentPadding,  \* BoxPadding the next render call will use
    rendered,        \* per render call: padding passed in and what came back
    result,          \* what the invocation returned (Null until it returns)
    failure,         \* the error the invocation rejected with (Null if none)
    heap,            \* the objects of the Vega-Lite spec trees, by address
    inputHeap,       \* the heap as it was when transformVegaLiteSpec was called
    vegaLiteSpec,    \* address of the caller's spec
    transformedSpec, \* address of the tree transformVegaLiteSpec returned
    xpc,             \* position in the spec preparation of renderVegaLiteToSvg
    scanPc,          \* position of calculateSvgContentBounds
    scanPos,         \* index of the next tag the scan will match
    scanStack,       \* transformStack
    scanBounds,      \* bounds: the boxes pushed so far
    scanResult,      \* what calculateSvgContentBounds returned
    invocations,     \* per concurrent invocation: its chart, position, outcome
    frames,          \* per activation of renderVegaLiteToSvg: its locals
    clock,           \* Math.floor(Date.now() / 1000)
    signature,       \* the latest generateSignature call and what it returned
    validation,      \* the validateSignature call just made and its outcome
    vegaSpecPadding, \* vegaSpec.padding as the compiler left it
    initialPadding,  \* what normalizePadding returned for it
    request,         \* the width and height renderVegaLiteToSvg was called with
    assetStrategy,   \* config.assetStrategy
    tasks,           \* per visualization of a tool call: its async callback
    call,            \* the tool call: pending, or what it returned
    stored           \* the files in the asset storage directory

renderVars == <<svg, fitInput, fitCount, origSvg, pc, attempt, currentPadding,
                rendered, result, failure>>

transformVars == <<heap, inputHeap, vegaLiteSpec, transformedSpec, xpc, request>>

scanVars == <<scanPc, scanPos, scanStack, scanBounds, scanResult>>

concurrentVars == <<invocations, frames>>

assetVars == <<clock, signature, validation>>

paddingVars == <<vegaSpecPadding, initialPadding>>

toolVars == <<assetStrategy, tasks, call, stored>>

\* the variables the fitter and the render loop leave alone
nonRenderVars ==
    <<transformVars, scanVars, concurrentVars, assetVars, paddingVars, toolVars>>

\* the variables the spec preparation leaves alone
nonTransformVars ==
    <<renderVars, scanVars, concurrentVars, assetVars, paddingVars, toolVars>>

\* the variables the scan leaves alone
nonScanVars ==
    <<renderVars, transformVars, concurrentVars, assetVars, paddingVars, toolVars>>

\* the variables concurrent invocations leave alone
nonConcurrentVars ==
    <<renderVars, transformVars, scanVars, assetVars, paddingVars, toolVars>>

\* the variables the asset signatures leave alone
nonAssetVars ==
    <<renderVars, transformVars, scanVars, concurrentVars, paddingVars, toolVars>>

\* the variables the padding normalisation leaves alone
nonPaddingVars ==
    <<renderVars, transformVars, scanVars, concurrentVars, assetVars, toolVars>>

\* the variables a tool call leaves alone
nonToolVars ==
    <<renderVars, transformVars, scanVars, concurrentVars, assetVars, paddingVars>>

vars == <<renderVars, transformVars, scanVars, concurrentVars, assetVars, paddingVars,
          toolVars>>

---------------------------------------------------------------------------
(* Bounds of the model *)

\* longest tag sequence of a markup body
MaxTags == 3
\* how many times adjustSvgViewBox is re-applied to its own output
MaxFits == 2
\* sub-pixel resolution of reported bounds and padding (units per pixel)
SubPx == 2
\* largest reported overflow on the left side, in 1/SubPx pixel
MaxOverflow == 3
\* most entries of a lookup map
MaxEntries == 3
\* most characters of a lookup key and its value together
MaxChars == 3
\* most commands of a path's data
MaxCmds == 4
\* number of concurrent invocations of renderVegaLiteToSvg
NumInvocations == 2
\* latest second of the clock and of an expiry time
MaxTime == 3

(* Program constants *)

\* 1 / 0.02: geometry units per pixel, which makes the 2 % margin exact
Res == 50
\* the loop bound of the padding expansion loop
MaxAttempts == 3
\* the font size of a text element without a font-size attribute
DefaultFontSize == 14
\* characters of the base64url encoding of a SHA-256 digest
DigestLength == 43
OVERFLOW_EPSILON == 1

---------------------------------------------------------------------------
(* Helpers standing for JavaScript built-ins *)

Null == [some |-> FALSE]
Some(x) == [some |-> TRUE, v |-> x]

Min(a, b) == IF a <= b THEN a ELSE b
Max(a, b) == IF a >= b THEN a ELSE b
Abs(a) == IF a < 0 THEN -a ELSE a

\* Math.min(...xs) / Math.max(...xs) over a non-empty sequence of numbers
RECURSIVE MinOf(_)
MinOf(xs) == IF Len(xs) = 1 THEN xs[1] ELSE Min(xs[1], MinOf(Tail(xs)))
RECURSIVE MaxOf(_)
MaxOf(xs) == IF Len(xs) = 1 THEN xs[1] ELSE Max(xs[1], MaxOf(Tail(xs)))

\* nan: the fields whose value is NaN (their number is then meaningless)
Box(x0, y0, x1, y1) ==
    [minX |-> x0, minY |-> y0, maxX |-> x1, maxY |-> y1, nan |-> {}]

---------------------------------------------------------------------------
(* Markup.  A markup string is the root tag (its declared width and height,*)
(* the values of its viewBox attributes in tag order) and the sequence of  *)
(* tags of its body.  Shape attributes are whole pixels.                   *)

\* a tag: its name, its (up to four) geometry attributes, its translate(),
\* its path data, the geometry attributes that are absent and those whose
\* value parseFloat cannot read
Tag(tag, a, b, c, d) ==
    [tag |-> tag, a |-> a, b |-> b, c |-> c, d |-> d, transform |-> Null,
     path |-> <<>>, missing |-> {}, nonNumeric |-> {}, selfClosing |-> FALSE]

GOpen(tx, ty) == Tag("g", tx, ty, 0, 0)
GSelfClosing(tx, ty) == [GOpen(tx, ty) EXCEPT !.selfClosing = TRUE]
GClose == Tag("/g", 0, 0, 0, 0)
Circle(cx, cy, r) == Tag("circle", cx, cy, r, 0)
Rect(x, y, w, h) == Tag("rect", x, y, w, h)
Line(x1, y1, x2, y2) == Tag("line", x1, y1, x2, y2)
Path(d) == [Tag("path", 0, 0, 0, 0) EXCEPT !.path = d]
\* a text element: x, y, font-size, and the number of characters (after
\* trim) of the text that follows the tag up to the next "<"
Text(x, y, fontSize, textLength) == Tag("text", x, y, fontSize, textLength)

\* the element carries transform="translate(tx, ty)"
Translated(t, tx, ty) == [t EXCEPT !.transform = Some([tx |-> tx, ty |-> ty])]
\* the element lacks the attributes attrs ("a".."d"; "d" is a path's d)
Without(t, attrs) == [t EXCEPT !.missing = attrs]
\* the attributes attrs of the element hold text that is not a number
NonNumeric(t, attrs) == [t EXCEPT !.nonNumeric = attrs]

\* one command of a path's d as commandRegex and the parameter split read
\* it: the letter in upper case, whether it was lower case, the numbers
Cmd(command, isRelative, params) ==
    [command |-> command, isRelative |-> isRelative, params |-> params]

Markup(w, h, vbs, body) ==
    [width |-> w, height |-> h, viewBoxes |-> vbs, body |-> body]

Point(x, y) == [x |-> x, y |-> y]

\* isRelative ? current + v : v
Coord(isRelative, current, v) == IF isRelative THEN current + v ELSE v

\* the for loops over params of getPathBounds, st = [current, coords]
RECURSIVE MoveOrLineTo(_, _, _)
MoveOrLineTo(params, isRelative, st) ==
    IF Len(params) < 2 THEN st
    ELSE LET current == Point(Coord(isRelative, st.current.x, params[1]),
                              Coord(isRelative, st.current.y, params[2]))
         IN  MoveOrLineTo(SubSeq(params, 3, Len(params)), isRelative,
                          [current |-> current, coords |-> Append(st.coords, current)])

RECURSIVE HorizontalTo(_, _, _)
HorizontalTo(params, isRelative, st) ==
    IF params = <<>> THEN st
    ELSE LET current == Point(Coord(isRelative, st.current.x, params[1]), st.current.y)
         IN  HorizontalTo(Tail(params), isRelative,
                          [current |-> current, coords |-> Append(st.coords, current)])

RECURSIVE VerticalTo(_, _, _)
VerticalTo(params, isRelative, st) ==
    IF params = <<>> THEN st
    ELSE LET current == Point(st.current.x, Coord(isRelative, st.current.y, params[1]))
         IN  VerticalTo(Tail(params), isRelative,
                        [current |-> current, coords |-> Append(st.coords, current)])

RECURSIVE CubicTo(_, _, _)
CubicTo(params, isRelative, st) ==
    IF Len(params) < 6 THEN st
    ELSE LET cp1 == Point(Coord(isRelative, st.current.x, params[1]),
                          Coord(isRelative, st.current.y, params[2]))
             cp2 == Point(Coord(isRelative, st.current.x, params[3]),
                          Coord(isRelative, st.current.y, params[4]))
             current == Point(Coord(isRelative, st.current.x, params[5]),
                              Coord(isRelative, st.current.y, params[6]))
         IN  CubicTo(SubSeq(params, 7, Len(params)), isRelative,
                     [current |-> current,
                      coords |-> st.coords \o <<cp1, cp2, current>>])

RECURSIVE QuadraticTo(_, _, _)
QuadraticTo(params, isRelative, st) ==
    IF Len(params) < 4 THEN st
    ELSE LET cp == Point(Coord(isRelative, st.current.x, params[1]),
                         Coord(isRelative, st.current.y, params[2]))
             current == Point(Coord(isRelative, st.current.x, params[3]),
                              Coord(isRelative, st.current.y, params[4]))
         IN  QuadraticTo(SubSeq(params, 5, Len(params)), isRelative,
                         [current |-> current, coords |-> st.coords \o <<cp, current>>])

\* Z: back to the first recorded point, if there is one
ClosePath(st) ==
    IF Len(st.coords) > 0
    THEN [current |-> st.coords[1], coords |-> Append(st.coords, st.coords[1])]
    ELSE st

\* the while loop over commandRegex matches
RECURSIVE PathCoords(_, _)
PathCoords(d, st) ==
    IF d = <<>> THEN st.coords
    ELSE LET m == Head(d)
         IN  PathCoords(Tail(d),
                CASE m.command \in {"M", "L"} -> MoveOrLineTo(m.params, m.isRelative, st)
                  [] m.command = "H" -> HorizontalTo(m.params, m.isRelative, st)
                  [] m.command = "V" -> VerticalTo(m.params, m.isRelative, st)
                  [] m.command = "C" -> CubicTo(m.params, m.isRelative, st)
                  [] m.command = "Q" -> QuadraticTo(m.params, m.isRelative, st)
                  [] m.command = "Z" -> ClosePath(st)
                  [] OTHER -> st)

\* (in pixels; null when no coordinate was read)
getPathBounds(d) ==
    LET coords == PathCoords(d, [current |-> Point(0, 0), coords |-> <<>>])
        xs == [i \in 1..Len(coords) |-> coords[i].x]
        ys == [i \in 1..Len(coords) |-> coords[i].y]
    IN  IF Len(coords) = 0 THEN Null
        ELSE Some(Box(MinOf(xs), MinOf(ys), MaxOf(xs), MaxOf(ys)))

getCircleBounds_CentreOnly(cx, cy, r) == Box(cx, cy, cx, cy)
getCircleBounds(cx, cy, r) == Box(cx - r, cy - r, cx + r, cy + r)

getLineBounds(x1, y1, x2, y2) ==
    Box(Min(x1, x2), Min(y1, y2), Max(x1, x2), Max(y1, y2))

getRectBounds(x, y, width, height) == Box(x, y, x + width, y + height)

\* fontSize in model units, textLength a count; the character estimate
\* textLength * 0.6 is in pixels
getTextBounds(x, y, fontSize, textLength) ==
    LET estimatedWidth == IF textLength > 0 THEN (textLength * 6 * Res) \div 10
                          ELSE fontSize * 5
        estimatedHeight == (fontSize * 12) \div 10
    IN  Box(x - estimatedWidth \div 2, y - estimatedHeight,
            x + estimatedWidth \div 2, y + estimatedHeight \div 2)

\* which fields of a shape's box become NaN when an attribute is NaN
XFields == {"minX", "maxX"}
YFields == {"minY", "maxY"}
CircleNaN == [n \in {"a", "b", "c", "d"} |->
                CASE n = "a" -> XFields [] n = "b" -> YFields
                  [] n = "c" -> XFields \cup YFields [] OTHER -> {}]
LineNaN == [n \in {"a", "b", "c", "d"} |->
              IF n \in {"a", "c"} THEN XFields ELSE YFields]
RectNaN == [n \in {"a", "b", "c", "d"} |->
              CASE n = "a" -> XFields [] n = "b" -> YFields
                [] n = "c" -> {"maxX"} [] OTHER -> {"maxY"}]

\* a NaN font size reaches the width only when there is no text content
TextNaN(textLength) ==
    [n \in {"a", "b", "c", "d"} |->
        CASE n = "a" -> XFields [] n = "b" -> YFields
          [] n = "c" -> YFields \cup (IF textLength > 0 THEN {} ELSE XFields)
          [] OTHER -> {}]

\* the box computed from attributes of which those in nonNumeric are NaN
WithNaN(box, table, nonNumeric) ==
    [box EXCEPT !.nan = UNION { table[n] : n \in nonNumeric }]

ScaleBox(box) ==
    [box EXCEPT !.minX = @ * Res, !.minY = @ * Res, !.maxX = @ * Res, !.maxY = @ * Res]

\* the element-specific branch of the scan: the shape's untransformed box,
\* null when a needed attribute has no match
ElementBounds(t) ==
    CASE t.tag = "path" ->
            IF "d" \in t.missing THEN Null
            ELSE LET pb == getPathBounds(t.path)
                 IN  IF pb.some THEN Some(ScaleBox(pb.v)) ELSE Null
      [] t.tag = "circle" ->
            IF t.missing \cap {"a", "b", "c"} # {} THEN Null
            ELSE Some(WithNaN(getCircleBounds(t.a * Res, t.b * Res, t.c * Res),
                              CircleNaN, t.nonNumeric \cap {"a", "b", "c"}))
      [] t.tag = "line" ->
            IF t.missing # {} THEN Null
            ELSE Some(WithNaN(getLineBounds(t.a * Res, t.b * Res, t.c * Res, t.d * Res),
                              LineNaN, t.nonNumeric))
      [] t.tag = "rect" ->
            IF t.missing # {} THEN Null
            ELSE Some(WithNaN(getRectBounds(t.a * Res, t.b * Res, t.c * Res, t.d * Res),
                              RectNaN, t.nonNumeric))
      [] t.tag = "text" ->
            IF t.missing \cap {"a", "b"} # {} THEN Null
            ELSE LET fontSize == IF "c" \in t.missing THEN DefaultFontSize ELSE t.c
                 IN  Some(WithNaN(getTextBounds(t.a * Res, t.b * Res, fontSize * Res, t.d),
                                  TextNaN(t.d), t.nonNumeric \ t.missing))
      [] OTHER -> Null

\* transformStack.pop() when more than the root entry is on the stack
PopTransform_Never(transformStack) == transformStack
PopTransform(transformStack) ==
    IF Len(transformStack) > 1
    THEN SubSeq(transformStack, 1, Len(transformStack) - 1)
    ELSE transformStack

\* tagName === 'g' && !isSelfClosing, for a tag that is a g
OpensGroup_AlsoSelfClosing(t) == TRUE
OpensGroup(t) == ~t.selfClosing

\* one iteration of the while loop over allTagsRegex matches
ScanStep(t, transformStack, bounds) ==
    LET currentTransform == transformStack[Len(transformStack)]
    IN  IF t.tag = "/g"
        THEN [transformStack |-> PopTransform(transformStack), bounds |-> bounds]
        ELSE IF t.tag = "g"
        THEN IF ~OpensGroup(t)
             THEN [transformStack |-> transformStack, bounds |-> bounds]
             ELSE [transformStack |->
                       Append(transformStack,
                              [tx |-> currentTransform.tx + t.a * Res,
                               ty |-> currentTransform.ty + t.b * Res]),
                   bounds |-> bounds]
        ELSE LET elementTransform ==
                     IF t.transform.some
                     THEN [tx |-> t.transform.v.tx * Res, ty |-> t.transform.v.ty * Res]
                     ELSE [tx |-> 0, ty |-> 0]
                 totalTransform ==
                     [tx |-> currentTransform.tx + elementTransform.tx,
                      ty |-> currentTransform.ty + elementTransform.ty]
                 elementBounds == ElementBounds(t)
             IN  IF elementBounds.some
                 THEN [transformStack |-> transformStack,
                       bounds |->
                         Append(bounds,
                                [elementBounds.v EXCEPT
                                   !.minX = @ + totalTransform.tx,
                                   !.minY = @ + totalTransform.ty,
                                   !.maxX = @ + totalTransform.tx,
                                   !.maxY = @ + totalTransform.ty])]
                 ELSE [transformStack |-> transformStack, bounds |-> bounds]

\* the while loop over allTagsRegex matches: returns the list of boxes
\* (each step is bound through a singleton set so that it is evaluated once)
RECURSIVE ScanTags(_, _, _)
ScanTags(tags, transformStack, bounds) ==
    IF tags = <<>> THEN bounds
    ELSE CHOOSE r \in { ScanTags(Tail(tags), step.transformStack, step.bounds) :
                          step \in {ScanStep(Head(tags), transformStack, bounds)} } :
             TRUE

MapField(bs, f) == [i \in 1..Len(bs) |-> bs[i][f]]

\* the union of a non-empty list of boxes: Math.min / Math.max per field,
\* NaN as soon as one box has NaN in that field
UnionOfBoxes(bounds) ==
    [Box(MinOf(MapField(bounds, "minX")), MinOf(MapField(bounds, "minY")),
         MaxOf(MapField(bounds, "maxX")), MaxOf(MapField(bounds, "maxY")))
       EXCEPT !.nan = UNION { bounds[i].nan : i \in 1..Len(bounds) }]

\* (the scan is bound through a singleton set so that it is evaluated once)
calculateSvgContentBounds(m) ==
    CHOOSE r \in { IF Len(bounds) = 0 THEN Null ELSE Some(UnionOfBoxes(bounds)) :
                     bounds \in {ScanTags(m.body, <<[tx |-> 0, ty |-> 0]>>, <<>>)} } :
        TRUE

\* width, height: parseFloat of the first match, null without one;
\* viewBox: the first viewBox attribute's value, null without one
parseSvgAttributes(m) ==
    [width |-> IF m.width.some THEN Some(m.width.v * Res) ELSE Null,
     height |-> IF m.height.some THEN Some(m.height.v * Res) ELSE Null,
     viewBox |-> IF Len(m.viewBoxes) > 0 THEN Some(m.viewBoxes[1]) ELSE Null]

\* Math.max(5, contentWidth * 0.02), in 1/Res pixel
Margin(extent) == Max(5 * Res, (extent * 2) \div 100)

\* Math.max(svgWidth, contentBounds.maxX + paddingX): the far edge of the
\* union of the margin-expanded content box and the background box
OverallMax_ContentOnly(svgExtent, contentMax, padding) == contentMax + padding
OverallMax(svgExtent, contentMax, padding) == Max(svgExtent, contentMax + padding)

\* if (newMinX < 0) { newWidth += Math.abs(newMinX); newMinX = 0; }
ClampExtent_NoGrow(overallMin, extent) == extent
ClampExtent(overallMin, extent) ==
    IF overallMin < 0 THEN extent + Abs(overallMin) ELSE extent

ClampMin_Keep(overallMin) == overallMin
ClampMin(overallMin) == IF overallMin < 0 THEN 0 ELSE overallMin

\* if (newWidth < 1) newWidth = 1;
EnsureMinimum(extent) == IF extent < 1 * Res THEN 1 * Res ELSE extent

\* the four numbers of newViewBox, from content bounds and root attributes
NewViewBox(contentBounds, svgAttrs) ==
    LET contentWidth == contentBounds.maxX - contentBounds.minX
        contentHeight == contentBounds.maxY - contentBounds.minY
        paddingX == Margin(contentWidth)
        paddingY == Margin(contentHeight)
        svgWidth == IF svgAttrs.width.some THEN svgAttrs.width.v ELSE contentBounds.maxX
        svgHeight == IF svgAttrs.height.some THEN svgAttrs.height.v
                     ELSE contentBounds.maxY
        overallMinX == Min(0, contentBounds.minX - paddingX)
        overallMinY == Min(0, contentBounds.minY - paddingY)
        overallMaxX == OverallMax(svgWidth, contentBounds.maxX, paddingX)
        overallMaxY == OverallMax(svgHeight, contentBounds.maxY, paddingY)
    IN  [minX |-> ClampMin(overallMinX),
         minY |-> ClampMin(overallMinY),
         width |-> EnsureMinimum(ClampExtent(overallMinX, overallMaxX - overallMinX)),
         height |-> EnsureMinimum(ClampExtent(overallMinY, overallMaxY - overallMinY))]

\* replace the first viewBox attribute, or insert one at the end of the root tag
WriteViewBox_AlwaysInsert(m, currentViewBox, newViewBox) ==
    [m EXCEPT !.viewBoxes = Append(m.viewBoxes, newViewBox)]
WriteViewBox(m, currentViewBox, newViewBox) ==
    IF currentViewBox.some
    THEN [m EXCEPT !.viewBoxes = <<newViewBox>> \o Tail(m.viewBoxes)]
    ELSE [m EXCEPT !.viewBoxes = Append(m.viewBoxes, newViewBox)]

\* (the content bounds are bound through a singleton set so that they are
\* evaluated once)
adjustSvgViewBox_EmptyBounds(m) ==
    CHOOSE r \in { LET svgAttrs == parseSvgAttributes(m)
                       found == IF contentBounds.some THEN contentBounds.v
                                ELSE Box(0, 0, 0, 0)
                   IN  WriteViewBox(m, svgAttrs.viewBox, NewViewBox(found, svgAttrs)) :
                     contentBounds \in {calculateSvgContentBounds(m)} } :
        TRUE
adjustSvgViewBox(m) ==
    CHOOSE r \in { IF ~contentBounds.some THEN m
                   ELSE LET svgAttrs == parseSvgAttributes(m)
                        IN  WriteViewBox(m, svgAttrs.viewBox,
                                         NewViewBox(contentBounds.v, svgAttrs)) :
                     contentBounds \in {calculateSvgContentBounds(m)} } :
        TRUE

---------------------------------------------------------------------------
(* Padding (BoxPadding, in 1/SubPx pixel) *)

Pad(t, b, l, r) == [top |-> t, bottom |-> b, left |-> l, right |-> r]

DEFAULT_PADDING == Pad(8 * SubPx, 12 * SubPx, 12 * SubPx, 28 * SubPx)

\* Math.ceil of a value given in 1/SubPx pixel
Ceil(x) == (-((-x) \div SubPx)) * SubPx

\* vegaSpec.padding as the compiler leaves it: undefined, a number, or an
\* object in which any side may be missing
PadUndefined == [kind |-> "undefined", n |-> 0,
                 top |-> Null, bottom |-> Null, left |-> Null, right |-> Null]
PadNumber(n) == [kind |-> "number", n |-> n,
                 top |-> Null, bottom |-> Null, left |-> Null, right |-> Null]
PadObject(t, b, l, r) == [kind |-> "object", n |-> 0,
                          top |-> t, bottom |-> b, left |-> l, right |-> r]

\* Math.max(0, x) of normalizePadding
ClampPadding_None(x) == x
ClampPadding(x) == Max(0, x)

\* padding?.side ?? fallback.side
Coalesce_AlwaysFallback(opt, fallback) == fallback
Coalesce(opt, fallback) == IF opt.some THEN opt.v ELSE fallback

normalizePadding(padding, fallback) ==
    IF padding.kind = "number"
    THEN LET normalized == ClampPadding(padding.n)
         IN  Pad(normalized, normalized, normalized, normalized)
    ELSE Pad(ClampPadding(Coalesce(padding.top, fallback.top)),
             ClampPadding(Coalesce(padding.bottom, fallback.bottom)),
             ClampPadding(Coalesce(padding.left, fallback.left)),
             ClampPadding(Coalesce(padding.right, fallback.right)))

addPadding(base, extra) ==
    Pad(base.top + extra.top, base.bottom + extra.bottom,
        base.left + extra.left, base.right + extra.right)

\* cond ? Math.ceil(amount + OVERFLOW_EPSILON) : 0
SideOverflow_NoEpsilon(cond, amount) == IF cond THEN Ceil(amount) ELSE 0
SideOverflow(cond, amount) ==
    IF cond THEN Ceil(amount + OVERFLOW_EPSILON * SubPx) ELSE 0

computePaddingAdjustment_AbsentGrows(bounds, viewWidth, viewHeight) ==
    IF ~bounds.some THEN Some(Pad(SubPx, SubPx, SubPx, SubPx))
    ELSE
    LET leftOverflow == SideOverflow(bounds.v.x1 < 0, Abs(bounds.v.x1))
        topOverflow == SideOverflow(bounds.v.y1 < 0, Abs(bounds.v.y1))
        rightOverflow == SideOverflow(bounds.v.x2 > viewWidth, bounds.v.x2 - viewWidth)
        bottomOverflow ==
            SideOverflow(bounds.v.y2 > viewHeight, bounds.v.y2 - viewHeight)
    IN  IF leftOverflow = 0 /\ topOverflow = 0 /\ rightOverflow = 0 /\ bottomOverflow = 0
        THEN Null
        ELSE Some(Pad(topOverflow, bottomOverflow, leftOverflow, rightOverflow))
computePaddingAdjustment_IgnoreRight(bounds, viewWidth, viewHeight) ==
    IF ~bounds.some THEN Null
    ELSE
    LET leftOverflow == SideOverflow(bounds.v.x1 < 0, Abs(bounds.v.x1))
        topOverflow == SideOverflow(bounds.v.y1 < 0, Abs(bounds.v.y1))
        bottomOverflow ==
            SideOverflow(bounds.v.y2 > viewHeight, bounds.v.y2 - viewHeight)
    IN  IF leftOverflow = 0 /\ topOverflow = 0 /\ bottomOverflow = 0
        THEN Null
        ELSE Some(Pad(topOverflow, bottomOverflow, leftOverflow, 0))
computePaddingAdjustment(bounds, viewWidth, viewHeight) ==
    IF ~bounds.some THEN Null
    ELSE
    LET leftOverflow == SideOverflow(bounds.v.x1 < 0, Abs(bounds.v.x1))
        topOverflow == SideOverflow(bounds.v.y1 < 0, Abs(bounds.v.y1))
        rightOverflow == SideOverflow(bounds.v.x2 > viewWidth, bounds.v.x2 - viewWidth)
        bottomOverflow ==
            SideOverflow(bounds.v.y2 > viewHeight, bounds.v.y2 - viewHeight)
    IN  IF leftOverflow = 0 /\ topOverflow = 0 /\ rightOverflow = 0 /\ bottomOverflow = 0
        THEN Null
        ELSE Some(Pad(topOverflow, bottomOverflow, leftOverflow, rightOverflow))

---------------------------------------------------------------------------
(* FormatterTransformer (transformVegaLiteSpec).  The spec is a tree of     *)
(* objects held in a heap (a sequence, the address of an object being its  *)
(* index, 0 standing for an absent property).  A layer object refers to    *)
(* the axis objects at encoding.x.axis and encoding.y.axis, to its child   *)
(* layers and to its customFormatterMaps object.  A string is a sequence   *)
(* of characters; a lookup map is the sequence of its (key, value) entries *)
(* in the order the properties were created.                               *)

\* characters that escapeForVegaExpr treats specially
BS == "\\"
SQ == "'"
NL == "NL"
CR == "CR"
TAB == "TAB"

Layer(x, y, layer, maps, w, h, auto) ==
    [kind |-> "layer", x |-> x, y |-> y, layer |-> layer,
     customFormatterMaps |-> maps, width |-> w, height |-> h, autosize |-> auto]

\* format: the axis has none, or one with these custom and mapName properties
Axis(format, labelExpr) == [kind |-> "axis", format |-> format, labelExpr |-> labelExpr]

Format(custom, mapName) == Some([custom |-> custom, mapName |-> mapName])

\* table: map name -> entries
FormatterMaps(table) == [kind |-> "maps", table |-> table]

Entry(k, v) == [key |-> k, value |-> v]

\* a property name that is an array index: digits without a leading zero
DigitValue(c) == CASE c = "0" -> 0 [] c = "1" -> 1 [] c = "2" -> 2 [] OTHER -> -1

IsArrayIndex(key) ==
    /\ Len(key) > 0
    /\ \A i \in 1..Len(key) : DigitValue(key[i]) >= 0
    /\ Len(key) > 1 => key[1] # "0"

RECURSIVE IndexValue(_)
IndexValue(key) ==
    IF key = <<>> THEN 0
    ELSE 10 * IndexValue(SubSeq(key, 1, Len(key) - 1)) + DigitValue(key[Len(key)])

IsIndexEntry(e) == IsArrayIndex(e.key)
IsNamedEntry(e) == ~IsArrayIndex(e.key)

\* entries with array-index keys in ascending numeric order
RECURSIVE SortByIndex(_)
SortByIndex(es) ==
    IF es = <<>> THEN <<>>
    ELSE LET m == CHOOSE i \in 1..Len(es) :
                      \A j \in 1..Len(es) : IndexValue(es[i].key) <= IndexValue(es[j].key)
         IN  <<es[m]>> \o SortByIndex(SubSeq(es, 1, m - 1) \o SubSeq(es, m + 1, Len(es)))

\* Object.entries(map), as the own-property order defines it: array-index keys
\* first, in ascending numeric order, then the other keys in creation order
ObjectEntries_CreationOrder(map) == map
ObjectEntries(map) ==
    SortByIndex(SelectSeq(map, IsIndexEntry)) \o SelectSeq(map, IsNamedEntry)

\* str.replace(/ch/g, replacement)
RECURSIVE ReplaceAll(_, _, _)
ReplaceAll(str, ch, replacement) ==
    IF str = <<>> THEN <<>>
    ELSE (IF Head(str) = ch THEN replacement ELSE <<Head(str)>>)
         \o ReplaceAll(Tail(str), ch, replacement)

escapeForVegaExpr_BackslashLast(str) ==
    ReplaceAll(
      ReplaceAll(
        ReplaceAll(
          ReplaceAll(
            ReplaceAll(str, SQ, <<BS, SQ>>),
            NL, <<BS, "n">>),
          CR, <<BS, "r">>),
        TAB, <<BS, "t">>),
      BS, <<BS, BS>>)
escapeForVegaExpr(str) ==
    ReplaceAll(
      ReplaceAll(
        ReplaceAll(
          ReplaceAll(
            ReplaceAll(str, BS, <<BS, BS>>),
            SQ, <<BS, SQ>>),
          NL, <<BS, "n">>),
        CR, <<BS, "r">>),
      TAB, <<BS, "t">>)

\* the for loop of createLabelExpr, from the last entry to the first; the
\* text of the expression is a sequence of characters in which each fixed
\* piece of the template literal other than a quote is one element
RECURSIVE LabelExprChain(_)
LabelExprChain(entries) ==
    IF entries = <<>> THEN <<"datum.value">>
    ELSE <<"datum.value", " === ", SQ>> \o escapeForVegaExpr(Head(entries).key)
         \o <<SQ, " ? ", SQ>> \o escapeForVegaExpr(Head(entries).value)
         \o <<SQ, " : ">> \o LabelExprChain(Tail(entries))

\* formatterMaps: map name -> entries; mapName: Null when the format has none
createLabelExpr_EmptyWhenMissing(formatterMaps, mapName) ==
    IF ~mapName.some \/ mapName.v \notin DOMAIN formatterMaps
    THEN <<>>
    ELSE LabelExprChain(ObjectEntries(formatterMaps[mapName.v]))
createLabelExpr(formatterMaps, mapName) ==
    IF ~mapName.some \/ mapName.v \notin DOMAIN formatterMaps
    THEN <<"datum.value">>
    ELSE LabelExprChain(ObjectEntries(formatterMaps[mapName.v]))

\* an address of the copy: the original's address moved past the original heap
Relocate(a, n) == IF a = 0 THEN 0 ELSE a + n

\* the copy JSON.parse(JSON.stringify(.)) makes of one object
CopyObject(o, n) ==
    CASE o.kind = "layer" ->
            [o EXCEPT !.x = Relocate(@, n), !.y = Relocate(@, n),
                      !.layer = [i \in 1..Len(@) |-> Relocate(@[i], n)],
                      !.customFormatterMaps = Relocate(@, n)]
      [] o.kind = "maps" ->
            [o EXCEPT !.table = [name \in DOMAIN @ |-> ObjectEntries(@[name])]]
      [] OTHER -> o

\* JSON.parse(JSON.stringify(spec)): a new object for every object of the
\* tree (the heap holds exactly the tree of spec)
DeepClone_Alias(h, spec) == [heap |-> h, root |-> spec]
DeepClone(h, spec) ==
    [heap |-> h \o [i \in 1..Len(h) |-> CopyObject(h[i], Len(h))],
     root |-> Relocate(spec, Len(h))]

\* one axis branch of transformLayer: delete axis.format; axis.labelExpr = ...
TransformAxis(h, axis, formatterMaps) ==
    IF axis # 0 /\ h[axis].format.some /\ h[axis].format.v.custom
    THEN [h EXCEPT ![axis] =
            Axis(Null, Some(createLabelExpr(formatterMaps, h[axis].format.v.mapName)))]
    ELSE h

\* the array iterated when layer.layer && Array.isArray(layer.layer)
ChildLayers_None(o) == <<>>
ChildLayers(o) == o.layer

RECURSIVE transformLayer(_, _, _)
RECURSIVE ForEachTransformLayer(_, _, _)
transformLayer(h, layer, formatterMaps) ==
    IF layer = 0 THEN h
    ELSE LET h1 == TransformAxis(h, h[layer].x, formatterMaps)
             h2 == TransformAxis(h1, h1[layer].y, formatterMaps)
         IN  ForEachTransformLayer(h2, ChildLayers(h2[layer]), formatterMaps)

\* layers.forEach(transformLayer)
ForEachTransformLayer(h, layers, formatterMaps) ==
    IF layers = <<>> THEN h
    ELSE ForEachTransformLayer(transformLayer(h, Head(layers), formatterMaps),
                               Tail(layers), formatterMaps)

\* returns the heap after the call and the address of the returned tree
transformVegaLiteSpec(h, spec) ==
    LET clone == DeepClone(h, spec)
        transformed == clone.root
        maps == clone.heap[transformed].customFormatterMaps
        formatterMaps == IF maps # 0 THEN clone.heap[maps].table ELSE <<>>
        h1 == transformLayer(clone.heap, transformed, formatterMaps)
        h2 == ForEachTransformLayer(h1, ChildLayers(h1[transformed]), formatterMaps)
    IN  [heap |-> [h2 EXCEPT ![transformed].customFormatterMaps = 0],
         root |-> transformed]

\* the height property of a spec: absent, a number, or a {step: n} object
NoHeight == [kind |-> "absent", n |-> 0]
NumberHeight(n) == [kind |-> "number", n |-> n]
StepHeight(n) == [kind |-> "step", n |-> n]

\* {...(autosize ?? {}), type: 'pad', contains: 'padding'}
PadAutosize(autosize) ==
    Some([type |-> "pad", contains |-> "padding",
          resize |-> IF autosize.some THEN autosize.v.resize ELSE Null])

\* the size and autosize writes of renderVegaLiteToSvg on the returned tree
WriteSizeAndAutosize_AlwaysHeight(o, width, height) ==
    [o EXCEPT !.width = Some(Max(1, width)),
              !.height = NumberHeight(Max(1, height)),
              !.autosize = PadAutosize(@)]
WriteSizeAndAutosize(o, width, height) ==
    LET isStepHeight == o.height.kind = "step"
    IN  [o EXCEPT !.width = Some(Max(1, width)),
                  !.height = IF isStepHeight THEN @ ELSE NumberHeight(Max(1, height)),
                  !.autosize = PadAutosize(@)]

---------------------------------------------------------------------------
(* AssetManager signatures.  A string is a sequence of characters.  The    *)
(* HMAC-SHA256 digest is modelled as collision-free: the message and the   *)
(* key are numbered injectively and the number is written in the digest's  *)
(* alphabet, so that two digests are equal exactly when message and key    *)
(* are.                                                                    *)

\* the characters of asset ids, decimal numbers and secret keys
MessageAlphabet == <<":", "0", "1", "2", "3", "4", "5", "a", "b", "k", "j">>
\* characters of the base64url alphabet
DigestAlphabet == <<"A", "B", "C", "D">>
\* a character outside ASCII
EAcute == "e-acute"

CharCode(c) == CHOOSE i \in 1..Len(MessageAlphabet) : MessageAlphabet[i] = c

\* the bytes of the UTF-8 encoding of a string
ByteWidth(c) == IF c = EAcute THEN 2 ELSE 1
RECURSIVE ByteLength(_)
ByteLength(str) == IF str = <<>> THEN 0 ELSE ByteWidth(Head(str)) + ByteLength(Tail(str))

\* `${n}` for a non-negative integer
RECURSIVE NumberToString(_)
NumberToString(n) ==
    IF n < 10 THEN <<MessageAlphabet[n + 2]>>
    ELSE NumberToString(n \div 10) \o <<MessageAlphabet[(n % 10) + 2]>>

\* an injective numbering of strings over MessageAlphabet
RECURSIVE StringNumber(_)
StringNumber(str) ==
    IF str = <<>> THEN 0
    ELSE CharCode(Head(str)) + (Len(MessageAlphabet) + 1) * StringNumber(Tail(str))

\* the number n (below 4^16) written in DigestAlphabet on width characters,
\* lowest digit first
Encode(n, width) ==
    [i \in 1..width |->
        IF i > 16 THEN DigestAlphabet[1]
        ELSE DigestAlphabet[((n \div (Len(DigestAlphabet) ^ (i - 1)))
                                % Len(DigestAlphabet)) + 1]]

\* crypto.createHmac('sha256', key).update(message).digest('base64url')
HmacDigest(key, message) ==
    Encode(StringNumber(message) * (Len(MessageAlphabet) + 1) + StringNumber(key),
           DigestLength)

generateSignature(config, assetId, expires) ==
    HmacDigest(config.assetSecretKey,
               assetId \o <<":">> \o NumberToString(expires) \o <<":">>
                       \o config.assetSecretKey)

\* crypto.timingSafeEqual(Buffer.from(a), Buffer.from(b)): throws when the
\* byte lengths differ
timingSafeEqual(a, b) ==
    IF ByteLength(a) # ByteLength(b) THEN "RangeError"
    ELSE IF a = b THEN "true" ELSE "false"

validateSignature(config, now, assetId, expires, providedSig) ==
    IF now > expires THEN "expired"
    ELSE LET calculatedSig == generateSignature(config, assetId, expires)
         IN  IF Len(calculatedSig) # Len(providedSig) THEN "invalid"
             ELSE LET isValid == timingSafeEqual(calculatedSig, providedSig)
                  IN  CASE isValid = "RangeError" -> "threw RangeError"
                        [] isValid = "false" -> "invalid"
                        [] OTHER -> "valid"

---------------------------------------------------------------------------
(* Inputs *)

\* svg = '' before the first render call returns
EmptyMarkup == Markup(Null, Null, <<>>, <<>>)

DeclaredViewBox == [minX |-> 0, minY |-> 0, width |-> 100 * Res, height |-> 60 * Res]

TagMenu ==
    { Circle(3, 30, 10), Circle(50, 30, 10), Circle(120, -5, 10),
      Rect(10, 10, 20, 20), Rect(-30, -30, 200, 200),
      GOpen(10, 20), GOpen(-60, 5), GClose }

Bodies == UNION { [1..n -> TagMenu] : n \in 0..MaxTags }

FitInputs ==
    { Markup(w, h, vbs, body) :
        w \in {Null, Some(100)}, h \in {Null, Some(60)},
        vbs \in {<<>>, <<DeclaredViewBox>>}, body \in Bodies }

\* what a render call may return: markup, self-reported bounds (possibly
\* absent) and the view size, which need not equal the requested size
RenderedMarkups ==
    { Markup(Some(100), Some(60), <<DeclaredViewBox>>, <<Circle(3, 30, 10)>>),
      Markup(Some(100), Some(60), <<DeclaredViewBox>>,
             <<GOpen(10, 20), Rect(10, 10, 20, 20), GClose>>) }

ViewWidth == 100 * SubPx
ViewHeight == 60 * SubPx

Bnd(x1, y1, x2, y2) == Some([x1 |-> x1, y1 |-> y1, x2 |-> x2, y2 |-> y2])

\* reported bounds: absent; overflowing on the left by 0..MaxOverflow units
\* (whole and fractional pixels); overflowing on the other sides; inside
ReportedBounds ==
    {Null}
    \cup { Bnd(-l, 0, ViewWidth, ViewHeight) : l \in 0..MaxOverflow }
    \cup { Bnd(0, 0, ViewWidth + 1, ViewHeight),
           Bnd(-1, -SubPx, ViewWidth - SubPx, ViewHeight + SubPx + 1),
           Bnd(SubPx, SubPx, ViewWidth - SubPx, ViewHeight - SubPx) }

RenderOutputs ==
    { [svg |-> m, bounds |-> bd, viewWidth |-> ViewWidth, viewHeight |-> ViewHeight] :
        m \in RenderedMarkups, bd \in ReportedBounds }

\* the errors a render call may reject with
RenderErrors == {"parse error", "render error"}

PaddingInputs ==
    { PadUndefined, PadNumber(-3 * SubPx), PadNumber(5 * SubPx + 1),
      PadObject(Some(-2 * SubPx), Null, Null, Some(0)),
      PadObject(Null, Some(4 * SubPx), Some(-1), Null) }

\* a side of a padding object: missing, negative, zero, fractional
PaddingSides == {Null, Some(-2 * SubPx), Some(0), Some(5 * SubPx + 1)}

\* vegaSpec.padding for the normalisation alone: undefined, scalars, and
\* objects with every combination of sides
NormalizeInputs ==
    {PadUndefined}
    \cup {PadNumber(n) : n \in {-3 * SubPx, -1, 0, 1, 5 * SubPx}}
    \cup {PadObject(t, b, l, r) : t, b, l, r \in PaddingSides}

\* markup for the scan alone: nested, closed and self-closing groups, shapes
\* with and without their own translate(), shapes with an absent or a
\* non-numeric geometry attribute, paths with and without readable data
TrianglePath ==
    <<Cmd("M", FALSE, <<10, 50>>), Cmd("L", FALSE, <<30, 10, 50, 50>>),
      Cmd("Z", FALSE, <<>>)>>

ScanMenu ==
    { GOpen(10, 20), GOpen(5, 5), GSelfClosing(7, 7), GClose,
      Circle(50, 50, 10), Translated(Circle(3, 30, 10), -5, 4),
      Without(Circle(50, 30, 10), {"c"}), NonNumeric(Circle(20, 20, 5), {"a"}),
      Rect(10, 10, 20, 20), Line(0, 60, 100, 0),
      Path(TrianglePath), Path(<<>>), Without(Path(<<>>), {"d"}) }

\* text elements with and without content and font size, inside and
\* outside translated groups
TextMenu ==
    { GOpen(10, 20), GClose,
      Text(50, 30, 10, 5), Text(50, 30, 10, 0), Text(20, 40, 12, 1),
      Without(Text(50, 30, 0, 3), {"c"}), Without(Text(50, 30, 0, 0), {"c"}),
      Without(Text(50, 30, 10, 5), {"b"}),
      Translated(Text(5, 5, 20, 10), -5, 4) }

TextInputs ==
    { Markup(Some(100), Some(60), <<>>, body) :
        body \in UNION { [1..n -> TextMenu] : n \in 0..MaxTags } }

ScanInputs ==
    { Markup(Some(100), Some(60), <<>>, body) :
        body \in UNION { [1..n -> ScanMenu] : n \in 0..MaxTags } }

\* path data: a moveto followed by up to MaxCmds - 1 commands, absolute and
\* relative, of every kind getPathBounds handles
MoveMenu ==
    { Cmd("M", FALSE, <<0, 0>>), Cmd("M", FALSE, <<20, 20>>), Cmd("M", TRUE, <<20, 0>>) }

CmdMenu ==
    MoveMenu \cup
    { Cmd("L", FALSE, <<10, 0>>), Cmd("L", TRUE, <<10, 10>>),
      Cmd("H", FALSE, <<5>>), Cmd("H", TRUE, <<10>>),
      Cmd("V", FALSE, <<15>>), Cmd("V", TRUE, <<-10>>),
      Cmd("C", FALSE, <<0, -5, 10, -5, 10, 0>>), Cmd("C", TRUE, <<0, 5, 10, 5, 10, 0>>),
      Cmd("Q", FALSE, <<5, 25, 10, 20>>), Cmd("Q", TRUE, <<5, -5, 10, 0>>),
      Cmd("Z", FALSE, <<>>) }

PathInputs ==
    { Markup(Some(100), Some(60), <<>>, <<Path(<<m>> \o rest)>>) :
        m \in MoveMenu, rest \in UNION { [1..n -> CmdMenu] : n \in 0..(MaxCmds - 1) } }

\* Vega-Lite specs: a root layer with an x axis, optionally a child layer with
\* a y axis and a grandchild layer with an x axis, optionally lookup maps
SpecTree(xFormat, shape, maps, height, autosize) ==
    LET base == <<Layer(2, 0, <<>>, 0, Null, height, autosize), Axis(xFormat, Null)>>
        withMaps ==
            IF maps.some
            THEN [Append(base, FormatterMaps(maps.v)) EXCEPT ![1].customFormatterMaps = 3]
            ELSE base
        c == Len(withMaps) + 1
        child(layers) ==
            <<Layer(0, c + 1, layers, 0, Null, NoHeight, Null),
              Axis(Format(TRUE, Some("m2")), Null)>>
        grandchild ==
            <<Layer(c + 3, 0, <<>>, 0, Null, NoHeight, Null),
              Axis(Format(TRUE, Some("m1")), Null)>>
    IN  CASE shape = "flat" -> withMaps
          [] shape = "child" ->
                [withMaps EXCEPT ![1].layer = <<c>>] \o child(<<>>)
          [] shape = "nested" ->
                [withMaps EXCEPT ![1].layer = <<c>>] \o child(<<c + 2>>) \o grandchild

MonthMap == <<Entry(<<"a">>, <<"A">>), Entry(<<"b">>, <<"B">>)>>
QuoteMap == <<Entry(<<"n">>, <<SQ, "n">>)>>

InputSpecs ==
    { SpecTree(xFormat, shape, maps, height, autosize) :
        xFormat \in {Null, Format(TRUE, Some("m1")), Format(TRUE, Null),
                     Format(FALSE, Null)},
        shape \in {"flat", "child", "nested"},
        maps \in {Null, Some([name \in {"m1"} |-> MonthMap]),
                  Some([name \in {"m1", "m2"} |->
                          IF name = "m1" THEN MonthMap ELSE QuoteMap])},
        height \in {NoHeight, NumberHeight(300), StepHeight(30)},
        autosize \in {Null, Some([type |-> "fit", contains |-> "content",
                                  resize |-> Some(TRUE)])} }

\* lookup maps for one axis: distinct keys, some of them array indices, each
\* value the key's label
LabelKeys == {<<"2">>, <<"1", "0">>, <<"a">>, <<"b">>}

LabelMaps ==
    { [i \in 1..Len(ks) |-> Entry(ks[i], <<"V">> \o ks[i])] :
        ks \in { k \in UNION { [1..m -> LabelKeys] : m \in 0..MaxEntries } :
                    \A i, j \in 1..Len(k) : k[i] = k[j] => i = j } }

EscapeChars == {BS, SQ, NL, CR, TAB, "n"}

StringsUpTo(n) == UNION { [1..k -> EscapeChars] : k \in 0..n }

\* the sizes renderVegaLiteToSvg is called with
RequestWidths == {0, 800}
RequestHeights == {0, 400}

\* no spec preparation is under way
IdleTransform ==
    /\ heap = <<>>
    /\ inputHeap = <<>>
    /\ vegaLiteSpec = 0
    /\ transformedSpec = 0
    /\ xpc = "idle"
    /\ request = Null

\* a chart as the renderer sees it: the requested size, the compiled spec's
\* padding, the marks, the left padding its marks need (reported as overflow
\* while the padding is smaller: always, or until it is reached), the left
\* padding from which rendering throws, and whether the canvas of the markup
\* grows with the padding
Chart(width, height, padding, body, overflow, leftNeeded, failsFrom, canvas) ==
    [width |-> width, height |-> height, padding |-> padding, body |-> body,
     overflow |-> overflow, leftNeeded |-> leftNeeded, failsFrom |-> failsFrom,
     canvas |-> canvas]

Charts ==
    { Chart(100, 60, PadUndefined, <<Circle(50, 30, 10)>>, "none", 0, Null, "padded"),
      Chart(800, 400, PadNumber(0), <<Rect(10, 10, 20, 20)>>,
            "until", 5 * SubPx, Null, "padded"),
      Chart(800, 400, PadNumber(0), <<Rect(10, 10, 20, 20)>>,
            "until", 5 * SubPx, Null, "bare"),
      Chart(100, 60, PadUndefined, <<GOpen(10, 20), Circle(3, 30, 10), GClose>>,
            "always", 1, Null, "padded"),
      Chart(100, 60, PadUndefined, <<Circle(3, 30, 10)>>,
            "until", 14 * SubPx, Some(13 * SubPx), "padded") }

\* a deterministic renderer: what renderVegaSpec does with a chart's compiled
\* spec carrying the given padding
RenderChart(chart, padding) ==
    LET grown == IF chart.canvas = "padded"
                 THEN (padding.left + padding.right) \div SubPx ELSE 0
        grownY == IF chart.canvas = "padded"
                  THEN (padding.top + padding.bottom) \div SubPx ELSE 0
        leftOverflow ==
            CASE chart.overflow = "until" -> Max(0, chart.leftNeeded - padding.left)
              [] chart.overflow = "always" -> chart.leftNeeded
              [] OTHER -> 0
    IN  IF chart.failsFrom.some /\ padding.left >= chart.failsFrom.v
        THEN [threw |-> Some("render error"), out |-> Null]
        ELSE [threw |-> Null,
              out |-> Some(
                [svg |-> Markup(Some(chart.width + grown), Some(chart.height + grownY),
                                <<[minX |-> 0, minY |-> 0,
                                   width |-> (chart.width + grown) * Res,
                                   height |-> (chart.height + grownY) * Res]>>,
                                chart.body),
                 bounds |-> Bnd(-leftOverflow, 0,
                                chart.width * SubPx, chart.height * SubPx),
                 viewWidth |-> chart.width * SubPx,
                 viewHeight |-> chart.height * SubPx])]

\* no tool call is being followed
IdleTool ==
    /\ assetStrategy = "disabled"
    /\ tasks = <<>>
    /\ call = Null
    /\ stored = {}

\* no padding normalisation is being followed
IdlePadding ==
    /\ vegaSpecPadding = PadUndefined
    /\ initialPadding = Null

\* no asset signature is being followed
IdleAsset ==
    /\ clock = 0
    /\ signature = Null
    /\ validation = Null

\* no concurrent invocations are being followed
IdleConcurrent ==
    /\ invocations = <<>>
    /\ frames = <<>>

\* no scan is being followed step by step
IdleScan ==
    /\ scanPc = "idle"
    /\ scanPos = 0
    /\ scanStack = <<>>
    /\ scanBounds = <<>>
    /\ scanResult = Null

\* no render loop is under way; m is the markup at hand
RenderIdleWith(m) ==
    /\ svg = m
    /\ fitInput = m
    /\ origSvg = m
    /\ fitCount = 0
    /\ pc = "idle"
    /\ attempt = 0
    /\ currentPadding = DEFAULT_PADDING
    /\ rendered = <<>>
    /\ result = Null
    /\ failure = Null

IdleRender == RenderIdleWith(EmptyMarkup)

---------------------------------------------------------------------------
(* ViewportFitter alone: adjustSvgViewBox applied to a markup and then to   *)
(* its own output                                                           *)

InitFit ==
    /\ svg \in FitInputs
    /\ fitInput = svg
    /\ origSvg = svg
    /\ fitCount = 0
    /\ pc = "fitter"
    /\ attempt = 0
    /\ currentPadding = DEFAULT_PADDING
    /\ rendered = <<>>
    /\ result = Null
    /\ failure = Null
    /\ IdleTransform
    /\ IdleScan
    /\ IdleConcurrent
    /\ IdleAsset
    /\ IdleTool
    /\ IdlePadding

ApplyAdjustSvgViewBox ==
    /\ pc = "fitter"
    /\ fitCount < MaxFits
    /\ fitInput' = svg
    /\ svg' = adjustSvgViewBox(svg)
    /\ fitCount' = fitCount + 1
    /\ UNCHANGED <<origSvg, pc, attempt, currentPadding, rendered, result, failure,
                   nonRenderVars>>

NextFit == ApplyAdjustSvgViewBox

SpecFit == InitFit /\ [][NextFit]_vars

---------------------------------------------------------------------------
(* renderVegaLiteToSvg from the padding normalisation on *)

InitRender ==
    /\ svg = EmptyMarkup
    /\ fitInput = EmptyMarkup
    /\ origSvg = EmptyMarkup
    /\ fitCount = 0
    /\ pc = "loop"
    /\ attempt = 0
    /\ \E p \in PaddingInputs : currentPadding = normalizePadding(p, DEFAULT_PADDING)
    /\ rendered = <<>>
    /\ result = Null
    /\ failure = Null
    /\ IdleTransform
    /\ IdleScan
    /\ IdleConcurrent
    /\ IdleAsset
    /\ IdleTool
    /\ IdlePadding

\* the loop condition attempt < 3
LoopContinues_OneMore(n) == n <= MaxAttempts
LoopContinues_Forever(n) == TRUE
LoopContinues(n) == n < MaxAttempts

\* for (...; attempt < 3; ...) { vegaSpec.padding = currentPadding; await render
CallRender ==
    /\ pc = "loop"
    /\ LoopContinues(attempt)
    /\ rendered' = Append(rendered,
                          [padding |-> currentPadding, out |-> Null, threw |-> Null])
    /\ pc' = "await"
    /\ UNCHANGED <<svg, fitInput, fitCount, origSvg, attempt, currentPadding, result,
                   failure, nonRenderVars>>

\* the loop condition fails after the last attempt
LoopExhausted ==
    /\ pc = "loop"
    /\ ~LoopContinues(attempt)
    /\ pc' = "fit"
    /\ UNCHANGED <<svg, fitInput, fitCount, origSvg, attempt, currentPadding,
                   rendered, result, failure, nonRenderVars>>

\* the render promise resolves: svg = currentSvg; break on no adjustment,
\* otherwise grow the padding and go round again
RenderReturns ==
    /\ pc = "await"
    /\ \E out \in RenderOutputs :
        LET adjustment ==
                computePaddingAdjustment(out.bounds, out.viewWidth, out.viewHeight)
        IN  /\ svg' = out.svg
            /\ rendered' = [rendered EXCEPT ![Len(rendered)].out = Some(out)]
            /\ IF ~adjustment.some
               THEN /\ pc' = "fit"
                    /\ UNCHANGED <<attempt, currentPadding>>
               ELSE /\ currentPadding' = addPadding(currentPadding, adjustment.v)
                    /\ attempt' = attempt + 1
                    /\ pc' = "loop"
    /\ UNCHANGED <<fitInput, fitCount, origSvg, result, failure, nonRenderVars>>

\* the render promise rejects: nothing catches the error, so it leaves the
\* loop and renderVegaLiteToSvg, whose promise rejects with it
RenderThrows_ReturnsEarlier ==
    /\ pc = "await"
    /\ \E e \in RenderErrors :
          rendered' = [rendered EXCEPT ![Len(rendered)].threw = Some(e)]
    /\ pc' = "fit"
    /\ UNCHANGED <<svg, fitInput, fitCount, origSvg, attempt, currentPadding, result,
                   failure, nonRenderVars>>
RenderThrows ==
    /\ pc = "await"
    /\ \E e \in RenderErrors :
          /\ rendered' = [rendered EXCEPT ![Len(rendered)].threw = Some(e)]
          /\ failure' = Some(e)
    /\ pc' = "failed"
    /\ UNCHANGED <<svg, fitInput, fitCount, origSvg, attempt, currentPadding, result,
                   nonRenderVars>>

\* svg = adjustSvgViewBox(svg); return svg
FitAndReturn ==
    /\ pc = "fit"
    /\ LET fitted == adjustSvgViewBox(svg)
       IN  /\ svg' = fitted
           /\ result' = Some(fitted)
    /\ fitInput' = svg
    /\ fitCount' = fitCount + 1
    /\ pc' = "done"
    /\ UNCHANGED <<origSvg, attempt, currentPadding, rendered, failure, nonRenderVars>>

NextRender ==
    \/ CallRender
    \/ LoopExhausted
    \/ RenderReturns
    \/ RenderThrows
    \/ FitAndReturn

SpecRender == InitRender /\ [][NextRender]_vars

\* a settled promise's continuation is always run by the event loop, and the
\* render call is assumed to settle
FairSpecRender == SpecRender /\ WF_vars(NextRender)

---------------------------------------------------------------------------
(* The spec preparation of renderVegaLiteToSvg: transformVegaLiteSpec, then *)
(* the size and autosize writes on the tree it returned                     *)

TransformCalledWith(h, width, height) ==
    /\ request = Some([width |-> width, height |-> height])
    /\ heap = h
    /\ inputHeap = h
    /\ vegaLiteSpec = 1
    /\ transformedSpec = 0
    /\ xpc = "called"
    /\ IdleRender
    /\ IdleScan
    /\ IdleConcurrent
    /\ IdleAsset
    /\ IdleTool
    /\ IdlePadding

\* called with the tool's default size
TransformCalledOn(h) == TransformCalledWith(h, 800, 400)

InitTransform ==
    \E h \in InputSpecs, width \in RequestWidths, height \in RequestHeights :
        TransformCalledWith(h, width, height)

\* a spec whose x axis refers to a lookup map of up to MaxEntries entries
InitLabel ==
    \E map \in LabelMaps :
        TransformCalledOn(SpecTree(Format(TRUE, Some("m1")), "flat",
                                   Some([name \in {"m1"} |-> map]), NoHeight, Null))

\* a spec whose x axis refers to a lookup map of one entry, key and value
\* being any strings over EscapeChars of up to MaxChars characters together
InitEscape ==
    \E key \in StringsUpTo(MaxChars) :
        \E value \in StringsUpTo(MaxChars - Len(key)) :
            TransformCalledOn(SpecTree(Format(TRUE, Some("m1")), "flat",
                                       Some([name \in {"m1"} |-> <<Entry(key, value)>>]),
                                       NoHeight, Null))

\* const transformedSpec = transformVegaLiteSpec(vegaLiteSpec)
TransformSpec ==
    /\ xpc = "called"
    /\ LET r == transformVegaLiteSpec(heap, vegaLiteSpec)
       IN  /\ heap' = r.heap
           /\ transformedSpec' = r.root
    /\ xpc' = "transformed"
    /\ UNCHANGED <<inputHeap, vegaLiteSpec, request, nonTransformVars>>

\* transformedSpec.width = ...; transformedSpec.height = ...;
\* transformedSpec.autosize = ...
SizeSpec ==
    /\ xpc = "transformed"
    /\ heap' = [heap EXCEPT ![transformedSpec] =
                    WriteSizeAndAutosize(@, request.v.width, request.v.height)]
    /\ xpc' = "sized"
    /\ UNCHANGED <<inputHeap, vegaLiteSpec, transformedSpec, request, nonTransformVars>>

NextTransform ==
    \/ TransformSpec
    \/ SizeSpec

SpecTransform == InitTransform /\ [][NextTransform]_vars

SpecLabel == InitLabel /\ [][NextTransform]_vars

SpecEscape == InitEscape /\ [][NextTransform]_vars

---------------------------------------------------------------------------
(* GeometryExtractor alone: calculateSvgContentBounds followed one tag      *)
(* match at a time                                                          *)

ScanCalledOn(m) ==
    /\ RenderIdleWith(m)
    /\ IdleTransform
    /\ IdleConcurrent
    /\ IdleAsset
    /\ IdleTool
    /\ IdlePadding
    /\ scanPc = "scanning"
    /\ scanPos = 1
    /\ scanStack = <<[tx |-> 0, ty |-> 0]>>
    /\ scanBounds = <<>>
    /\ scanResult = Null

InitScan == \E m \in ScanInputs : ScanCalledOn(m)

InitPath == \E m \in PathInputs : ScanCalledOn(m)

InitText == \E m \in TextInputs : ScanCalledOn(m)

\* one iteration of while ((match = allTagsRegex.exec(svgString)) !== null)
ScanTag ==
    /\ scanPc = "scanning"
    /\ scanPos <= Len(svg.body)
    /\ LET step == ScanStep(svg.body[scanPos], scanStack, scanBounds)
       IN  /\ scanStack' = step.transformStack
           /\ scanBounds' = step.bounds
    /\ scanPos' = scanPos + 1
    /\ UNCHANGED <<scanPc, scanResult, nonScanVars>>

\* no further match: return null, or the overall bounds
ScanEnds ==
    /\ scanPc = "scanning"
    /\ scanPos > Len(svg.body)
    /\ scanResult' = IF Len(scanBounds) = 0 THEN Null ELSE Some(UnionOfBoxes(scanBounds))
    /\ scanPc' = "done"
    /\ UNCHANGED <<scanPos, scanStack, scanBounds, nonScanVars>>

NextScan ==
    \/ ScanTag
    \/ ScanEnds

SpecScan == InitScan /\ [][NextScan]_vars

SpecPath == InitPath /\ [][NextScan]_vars

SpecText == InitText /\ [][NextScan]_vars

---------------------------------------------------------------------------
(* Concurrent invocations of renderVegaLiteToSvg (the tool handler starts   *)
(* one per visualization inside Promise.all); control passes from one to    *)
(* another only where an invocation awaits its render call                  *)

Invocations == 1..NumInvocations

\* the activation record that holds invocation i's let-bound locals
Frame_ModuleLevel(i) == 1
Frame(i) == i

\* svg = currentSvg
AssignSvg_KeepFirst(svgBefore, currentSvg) ==
    IF svgBefore = EmptyMarkup THEN currentSvg ELSE svgBefore
AssignSvg(svgBefore, currentSvg) == currentSvg

InitConcurrent ==
    /\ \E charts \in [Invocations -> Charts] :
          /\ invocations =
                [i \in Invocations |->
                    [chart |-> charts[i], pc |-> "loop", calls |-> <<>>,
                     result |-> Null, failure |-> Null]]
          /\ frames =
                [i \in Invocations |->
                    [attempt |-> 0,
                     currentPadding |-> normalizePadding(charts[i].padding, DEFAULT_PADDING),
                     svg |-> EmptyMarkup]]
    /\ IdleRender
    /\ IdleTransform
    /\ IdleScan
    /\ IdleAsset
    /\ IdleTool
    /\ IdlePadding

\* the number of render calls made so far by all invocations
RECURSIVE CallsMade(_)
CallsMade(n) == IF n = 0 THEN 0 ELSE Len(invocations[n].calls) + CallsMade(n - 1)

\* vegaSpec.padding = currentPadding; await renderVegaSpec(vegaSpec)
InvCallRender(i) ==
    /\ invocations[i].pc = "loop"
    /\ LoopContinues(frames[Frame(i)].attempt)
    /\ invocations' =
          [invocations EXCEPT
             ![i].pc = "await",
             ![i].calls = Append(@, [padding |-> frames[Frame(i)].currentPadding,
                                     order |-> CallsMade(NumInvocations) + 1,
                                     out |-> Null, threw |-> Null])]
    /\ UNCHANGED <<frames, nonConcurrentVars>>

InvLoopExhausted(i) ==
    /\ invocations[i].pc = "loop"
    /\ ~LoopContinues(frames[Frame(i)].attempt)
    /\ invocations' = [invocations EXCEPT ![i].pc = "fit"]
    /\ UNCHANGED <<frames, nonConcurrentVars>>

\* the render promise of invocation i settles and its continuation runs up
\* to the next await, the break, or the throw
InvRenderSettles(i) ==
    /\ invocations[i].pc = "await"
    /\ LET n == Len(invocations[i].calls)
           r == RenderChart(invocations[i].chart, invocations[i].calls[n].padding)
           f == Frame(i)
       IN  IF r.threw.some
           THEN /\ invocations' =
                     [invocations EXCEPT ![i].pc = "failed",
                                         ![i].failure = r.threw,
                                         ![i].calls[n].threw = r.threw]
                /\ UNCHANGED frames
           ELSE LET adjustment ==
                        computePaddingAdjustment(r.out.v.bounds, r.out.v.viewWidth,
                                                 r.out.v.viewHeight)
                IN  /\ invocations' =
                          [invocations EXCEPT
                             ![i].pc = IF adjustment.some THEN "loop" ELSE "fit",
                             ![i].calls[n].out = r.out]
                    /\ frames' =
                          [frames EXCEPT
                             ![f].svg = AssignSvg(@, r.out.v.svg),
                             ![f].currentPadding =
                                 IF adjustment.some THEN addPadding(@, adjustment.v)
                                 ELSE @,
                             ![f].attempt = IF adjustment.some THEN @ + 1 ELSE @]
    /\ UNCHANGED nonConcurrentVars

\* svg = adjustSvgViewBox(svg); return svg
InvFitAndReturn(i) ==
    /\ invocations[i].pc = "fit"
    /\ LET fitted == adjustSvgViewBox(frames[Frame(i)].svg)
       IN  /\ invocations' = [invocations EXCEPT ![i].pc = "done",
                                                 ![i].result = Some(fitted)]
           /\ frames' = [frames EXCEPT ![Frame(i)].svg = fitted]
    /\ UNCHANGED nonConcurrentVars

InvStep(i) ==
    \/ InvCallRender(i)
    \/ InvLoopExhausted(i)
    \/ InvRenderSettles(i)
    \/ InvFitAndReturn(i)

NextConcurrent == \E i \in Invocations : InvStep(i)

SpecConcurrent == InitConcurrent /\ [][NextConcurrent]_vars

\* every settled render promise has its continuation run, and every render
\* call is assumed to settle
FairSpecConcurrent ==
    SpecConcurrent /\ \A i \in Invocations : WF_vars(InvStep(i))

---------------------------------------------------------------------------
(* The render-pulse-svg tool call from Promise.all on: one async callback   *)
(* per visualization, each awaiting renderVegaLiteToSvg and then            *)
(* assetManager.store; the callbacks interleave at their awaits             *)

AssetStrategies == {"disabled", "inline", "local", "s3"}
InsightTypes == {"popc", "currenttrend"}

\* the callback of visualization i
Task(insightType) ==
    [insightType |-> insightType, pc |-> "rendering", svg |-> Null, assetId |-> Null,
     returned |-> Null, error |-> Null]

\* `${uuid}.${extension}` for the n-th uuid drawn
AssetId(n) == <<n, ".svg">>
\* `${uuid}.json`
MetadataFile(assetId) == <<assetId[1], ".json">>

\* crypto.randomUUID(): a value not drawn before
RandomUUID(ts) == Cardinality({i \in DOMAIN ts : ts[i].assetId.some}) + 1

\* what the callback returns for its visualization
Visualization(strategy, task, data, assetId) ==
    [insightType |-> task.insightType,
     field |-> IF strategy = "inline" THEN "svg" ELSE "url",
     value |-> IF strategy = "inline" THEN data ELSE <<"signed url", assetId>>,
     assetId |-> assetId]

\* Promise.all over the callbacks' promises, as seen after one of them
\* settled: rejected with the first rejection, fulfilled with all the values
\* in input order once every one is fulfilled
PromiseAll_IgnoreRejections(settled, ts) ==
    IF settled.status # "pending" THEN settled
    ELSE IF \A i \in DOMAIN ts : ts[i].pc \in {"done", "failed"}
    THEN [status |-> "ok",
          visualizations |->
              SelectSeq([i \in DOMAIN ts |-> ts[i].returned], LAMBDA v : v.some),
          error |-> Null]
    ELSE settled
PromiseAll(settled, ts) ==
    IF settled.status # "pending" THEN settled
    ELSE IF \E i \in DOMAIN ts : ts[i].pc = "failed"
    THEN [status |-> "error", visualizations |-> <<>>,
          error |-> ts[CHOOSE i \in DOMAIN ts : ts[i].pc = "failed"].error]
    ELSE IF \A i \in DOMAIN ts : ts[i].pc = "done"
    THEN [status |-> "ok",
          visualizations |-> [i \in DOMAIN ts |-> ts[i].returned],
          error |-> Null]
    ELSE settled

InitTool ==
    /\ assetStrategy \in AssetStrategies
    /\ tasks \in [Invocations -> {Task(t) : t \in InsightTypes}]
    /\ call = [status |-> "pending", visualizations |-> <<>>, error |-> Null]
    /\ stored = {}
    /\ IdleRender
    /\ IdleTransform
    /\ IdleScan
    /\ IdleConcurrent
    /\ IdleAsset
    /\ IdlePadding

\* the callback's state changes and Promise.all reacts to it
TaskBecomes(i, task) ==
    /\ tasks' = [tasks EXCEPT ![i] = task]
    /\ call' = PromiseAll(call, [tasks EXCEPT ![i] = task])

\* renderVegaLiteToSvg rejects: the callback's promise rejects
RenderRejects(i) ==
    /\ tasks[i].pc = "rendering"
    /\ \E e \in RenderErrors :
          TaskBecomes(i, [tasks[i] EXCEPT !.pc = "failed", !.error = Some(e)])
    /\ UNCHANGED <<assetStrategy, stored, nonToolVars>>

\* renderVegaLiteToSvg resolves and the callback runs assetManager.store up
\* to its first await, its return or its throw
RenderResolves(i) ==
    /\ tasks[i].pc = "rendering"
    /\ LET data == <<"svg of", i>>
           assetId == AssetId(RandomUUID(tasks))
       IN  CASE assetStrategy = "disabled" ->
                  TaskBecomes(i, [tasks[i] EXCEPT
                                    !.pc = "failed", !.svg = Some(data),
                                    !.error = Some("Asset serving is disabled")])
             [] assetStrategy = "inline" ->
                  TaskBecomes(i, [tasks[i] EXCEPT
                                    !.pc = "done", !.svg = Some(data),
                                    !.assetId = Some(assetId),
                                    !.returned =
                                        Some(Visualization(assetStrategy, tasks[i],
                                                           data, assetId))])
             [] OTHER ->
                  TaskBecomes(i, [tasks[i] EXCEPT
                                    !.pc = "writing", !.svg = Some(data),
                                    !.assetId = Some(assetId)])
    /\ UNCHANGED <<assetStrategy, stored, nonToolVars>>

\* fs.mkdir and fs.writeFile(filePath, data) complete
AssetWritten(i) ==
    /\ tasks[i].pc = "writing"
    /\ stored' = stored \cup {tasks[i].assetId.v}
    /\ TaskBecomes(i, [tasks[i] EXCEPT !.pc = "writing metadata"])
    /\ UNCHANGED <<assetStrategy, nonToolVars>>

\* fs.writeFile(metadataPath, ...) completes; store signs the URL and
\* returns, and so does the callback
MetadataWritten(i) ==
    /\ tasks[i].pc = "writing metadata"
    /\ stored' = stored \cup {MetadataFile(tasks[i].assetId.v)}
    /\ TaskBecomes(i, [tasks[i] EXCEPT
                          !.pc = "done",
                          !.returned = Some(Visualization(assetStrategy, tasks[i],
                                                          tasks[i].svg.v,
                                                          tasks[i].assetId.v))])
    /\ UNCHANGED <<assetStrategy, nonToolVars>>

\* fs.mkdir or an fs.writeFile rejects: store rejects, and so does the callback
WriteRejects(i) ==
    /\ tasks[i].pc \in {"writing", "writing metadata"}
    /\ TaskBecomes(i, [tasks[i] EXCEPT !.pc = "failed", !.error = Some("write error")])
    /\ UNCHANGED <<assetStrategy, stored, nonToolVars>>

TaskStep(i) ==
    \/ RenderRejects(i)
    \/ RenderResolves(i)
    \/ AssetWritten(i)
    \/ MetadataWritten(i)
    \/ WriteRejects(i)

NextTool == \E i \in Invocations : TaskStep(i)

SpecTool == InitTool /\ [][NextTool]_vars

---------------------------------------------------------------------------
(* normalizePadding alone, as renderVegaLiteToSvg calls it on the compiled  *)
(* spec's padding                                                           *)

InitPadding ==
    /\ vegaSpecPadding \in NormalizeInputs
    /\ initialPadding = Null
    /\ IdleRender
    /\ IdleTransform
    /\ IdleScan
    /\ IdleConcurrent
    /\ IdleAsset
    /\ IdleTool

\* const initialPadding = normalizePadding(vegaSpec.padding)
NormalizePadding ==
    /\ initialPadding = Null
    /\ initialPadding' = Some(normalizePadding(vegaSpecPadding, DEFAULT_PADDING))
    /\ UNCHANGED <<vegaSpecPadding, nonPaddingVars>>

NextPadding == NormalizePadding

SpecPadding == InitPadding /\ [][NextPadding]_vars

---------------------------------------------------------------------------
(* AssetManager: signatures are generated and validated while time passes *)

AssetIds == {<<"a">>, <<"a", ":", "1">>}
SecretKeys == {<<"k">>, <<"j">>}
Configs == {[assetSecretKey |-> k] : k \in SecretKeys}
Times == 0..MaxTime

\* the signatures a request may carry: the latest one generated, and that
\* one with its first character replaced by "A" or by a character outside
\* ASCII, or with a character appended
ReplaceFirst(str, c) == <<c>> \o Tail(str)
ProvidedSignatures ==
    IF signature.some
    THEN {signature.v.sig, ReplaceFirst(signature.v.sig, "A"),
          ReplaceFirst(signature.v.sig, EAcute),
          Append(signature.v.sig, "A")}
    ELSE {Encode(0, DigestLength), <<>>}

InitAsset ==
    /\ clock = 0
    /\ signature = Null
    /\ validation = Null
    /\ IdleRender
    /\ IdleTransform
    /\ IdleScan
    /\ IdleConcurrent
    /\ IdlePadding
    /\ IdleTool

Tick ==
    /\ clock < MaxTime
    /\ clock' = clock + 1
    /\ validation' = Null
    /\ UNCHANGED <<signature, nonAssetVars>>

GenerateSignature ==
    /\ \E config \in Configs, assetId \in AssetIds, expires \in Times :
          signature' = Some([config |-> config, assetId |-> assetId, expires |-> expires,
                             sig |-> generateSignature(config, assetId, expires)])
    /\ validation' = Null
    /\ UNCHANGED <<clock, nonAssetVars>>

ValidateSignature ==
    /\ \E config \in Configs, assetId \in AssetIds, expires \in Times,
          providedSig \in ProvidedSignatures :
          validation' =
              Some([config |-> config, now |-> clock, assetId |-> assetId,
                    expires |-> expires, providedSig |-> providedSig,
                    outcome |-> validateSignature(config, clock, assetId, expires,
                                                  providedSig)])
    /\ UNCHANGED <<clock, signature, nonAssetVars>>

NextAsset ==
    \/ Tick
    \/ GenerateSignature
    \/ ValidateSignature

SpecAsset == InitAsset /\ [][NextAsset]_vars

---------------------------------------------------------------------------
(* Claims about the ViewportFitter (checked under SpecFit) *)

\* the content bounds of the markup the fitter was last given
FitContent == calculateSvgContentBounds(fitInput)

\* the fitter has run on a markup that has content bounds
Fitted == fitCount >= 1 /\ FitContent.some

\* the viewBox attribute the last application wrote: the first one when the
\* input had one, the inserted (last) one otherwise
WrittenViewBox ==
    IF Len(fitInput.viewBoxes) > 0 THEN svg.viewBoxes[1]
    ELSE svg.viewBoxes[Len(svg.viewBoxes)]

\* C1: the visible region written by adjustSvgViewBox contains the whole
\* content bounding box, on all four sides, also for content at negative
\* coordinates.
C1_RegionContainsContent ==
    Fitted =>
        /\ WrittenViewBox.minX <= FitContent.v.minX
        /\ WrittenViewBox.minY <= FitContent.v.minY
        /\ WrittenViewBox.minX + WrittenViewBox.width >= FitContent.v.maxX
        /\ WrittenViewBox.minY + WrittenViewBox.height >= FitContent.v.maxY

C3_BackgroundKept ==
    Fitted =>
        /\ fitInput.width.some =>
              /\ WrittenViewBox.minX <= 0
              /\ WrittenViewBox.minX + WrittenViewBox.width >= fitInput.width.v * Res
        /\ fitInput.height.some =>
              /\ WrittenViewBox.minY <= 0
              /\ WrittenViewBox.minY + WrittenViewBox.height >= fitInput.height.v * Res

\* C3 witness: every mark, with its margin, lies strictly inside the declared
\* canvas and the fitter has run.
C3_Witness ==
    /\ Fitted
    /\ fitInput.width.some /\ fitInput.height.some
    /\ FitContent.v.minX - 5 * Res > 0
    /\ FitContent.v.minY - 5 * Res > 0
    /\ FitContent.v.maxX + 5 * Res < fitInput.width.v * Res
    /\ FitContent.v.maxY + 5 * Res < fitInput.height.v * Res

\* the union of the margin-expanded content box and the background box on one
\* axis, as the claim words it: its minimum and its maximum
UnionMin(contentMin, contentMax) ==
    Min(0, contentMin - Max(5 * Res, (contentMax - contentMin) \div 50))
UnionMax(declared, contentMin, contentMax) ==
    Max(IF declared.some THEN declared.v * Res ELSE contentMax,
        contentMax + Max(5 * Res, (contentMax - contentMin) \div 50))

\* C4: when the union has a negative minimum m on an axis, the written region
\* has minimum 0 on that axis and an extent equal to the pre-clamp extent plus
\* |m|; a content box with minX = -7 gives minX = 0 and a width at least 7
\* larger than the declared width.
C4_ClampExtends ==
    Fitted =>
        LET cb == FitContent.v
            mX == UnionMin(cb.minX, cb.maxX)
            mY == UnionMin(cb.minY, cb.maxY)
            extX == UnionMax(fitInput.width, cb.minX, cb.maxX) - mX
            extY == UnionMax(fitInput.height, cb.minY, cb.maxY) - mY
        IN  /\ mX < 0 => WrittenViewBox.minX = 0 /\ WrittenViewBox.width = extX - mX
            /\ mY < 0 => WrittenViewBox.minY = 0 /\ WrittenViewBox.height = extY - mY
            /\ (cb.minX = -7 * Res /\ fitInput.width.some) =>
                  /\ WrittenViewBox.minX = 0
                  /\ WrittenViewBox.width >= fitInput.width.v * Res + 7 * Res

\* C4 witness: the fitter has run on content whose box starts at minX = -7
\* under a declared width.
C4_Witness ==
    /\ Fitted
    /\ FitContent.v.minX = -7 * Res
    /\ fitInput.width.some

\* C5: applying adjustSvgViewBox to its own output leaves the markup, and so
\* the viewBox value, unchanged, and the root tag carries exactly one viewBox
\* attribute, whether the first application replaced or inserted it.
C5_Idempotent ==
    (fitCount >= 2 /\ FitContent.some) =>
        /\ svg = fitInput
        /\ Len(svg.viewBoxes) = 1
        /\ WrittenViewBox = NewViewBox(calculateSvgContentBounds(origSvg).v,
                                       parseSvgAttributes(origSvg))

\* C5 witness: the second application has run on a markup into which the
\* first application inserted the viewBox, content at negative coordinates.
C5_Witness ==
    /\ fitCount = 2
    /\ FitContent.some
    /\ Len(origSvg.viewBoxes) = 0
    /\ FitContent.v.minX < 0

\* C27: when the markup has no recognized shape that yields a box, so that
\* the content bounds are absent, adjustSvgViewBox returns the markup
\* unchanged: no viewBox is inserted and an existing one is not rewritten.
C27_NoContentUnchanged ==
    (fitCount >= 1 /\ ~FitContent.some) => svg = fitInput

\* C27 witness: the fitter has run on markup that declares a viewBox and
\* whose body holds group tags only.
C27_Witness ==
    /\ fitCount >= 1
    /\ ~FitContent.some
    /\ fitInput.viewBoxes = <<DeclaredViewBox>>
    /\ fitInput.body = <<GOpen(10, 20), GClose>>

\* a second state of the same case, kept for reference: markup without a
\* viewBox and without any tag
NoContentNoViewBoxReached ==
    /\ fitCount >= 1
    /\ fitInput.viewBoxes = <<>>
    /\ fitInput.body = <<>>
    /\ svg.viewBoxes = <<>>

---------------------------------------------------------------------------
(* Claims about the render loop (checked under SpecRender, termination     *)
(* under FairSpecRender)                                                   *)

\* what render call i returned
Out(i) == rendered[i].out.v

\* render call i has returned and its reported bounds exceed the view on a side
Overflows(i) ==
    /\ rendered[i].out.some
    /\ Out(i).bounds.some
    /\ \/ Out(i).bounds.v.x1 < 0
       \/ Out(i).bounds.v.y1 < 0
       \/ Out(i).bounds.v.x2 > Out(i).viewWidth
       \/ Out(i).bounds.v.y2 > Out(i).viewHeight

\* the invocation has left the loop without an error
LoopLeft == pc \in {"fit", "done"}

\* the markup handed to the viewport fitter
HandedToFitter == IF pc = "fit" THEN svg ELSE fitInput

\* C6: an invocation in which no render call throws makes at least one and at
\* most 3 render calls, and every invocation terminates (returns or fails)
\* whatever bounds the renderer reports.
C6_BoundedRenderCalls ==
    /\ [](Len(rendered) <= 3 /\ (LoopLeft => Len(rendered) >= 1))
    /\ <>(pc \in {"done", "failed"})

\* C6 witness: an invocation has returned after three render calls that all
\* reported overflow.
C6_Witness ==
    /\ pc = "done"
    /\ Len(rendered) = 3
    /\ \A i \in 1..3 : Overflows(i)

\* C7: no render call follows an attempt that reported no overflow; the loop
\* is left after attempt k < 3 only when attempt k reported none; the markup
\* handed to the fitter is the markup of the last attempt; overflow on
\* attempt 1 and none on attempt 2 means exactly 2 render calls.
C7_StopsAtFirstFit ==
    /\ \A i \in 1..(Len(rendered) - 1) : Overflows(i)
    /\ LoopLeft =>
          LET k == Len(rendered)
          IN  /\ k < 3 => ~Overflows(k)
              /\ HandedToFitter = Out(k).svg
              /\ (k >= 2 /\ Overflows(1) /\ ~Overflows(2)) => k = 2

\* C7 witness: the invocation returned after overflow on attempt 1 and none
\* on attempt 2, the two attempts having produced different markup.
C7_Witness ==
    /\ pc = "done"
    /\ Len(rendered) = 2
    /\ Overflows(1)
    /\ ~Overflows(2)
    /\ Out(1).svg # Out(2).svg

\* per side, the amount by which the reported bounds of call i exceed the view
\* (<= 0 when they do not)
Excess(i) ==
    [left |-> -Out(i).bounds.v.x1,
     top |-> -Out(i).bounds.v.y1,
     right |-> Out(i).bounds.v.x2 - Out(i).viewWidth,
     bottom |-> Out(i).bounds.v.y2 - Out(i).viewHeight]

Sides == {"top", "bottom", "left", "right"}

\* C8 as stated: the padding of attempt n+1 is the padding of attempt n plus
\* exactly (excess + 1 pixel) on each side that overflowed, plus 0 on the
\* others.
C8_ExactOverflowPlusEpsilon ==
    \A n \in 1..(Len(rendered) - 1) : \A s \in Sides :
        rendered[n + 1].padding[s] =
            rendered[n].padding[s]
            + (IF Excess(n)[s] > 0 THEN Excess(n)[s] + 1 * SubPx ELSE 0)

\* v is x rounded up to a whole number of pixels
IsRoundedUp(v, x) == v % SubPx = 0 /\ v >= x /\ v - x < SubPx

\* C8 amended: the padding of attempt n+1 is the padding of attempt n plus
\* (excess + 1 pixel) rounded up to a whole pixel on each side that
\* overflowed, plus 0 on the others.
C8_CeilOverflowPlusEpsilon ==
    \A n \in 1..(Len(rendered) - 1) : \A s \in Sides :
        LET grown == rendered[n + 1].padding[s] - rendered[n].padding[s]
        IN  IF Excess(n)[s] > 0
            THEN IsRoundedUp(grown, Excess(n)[s] + 1 * SubPx)
            ELSE grown = 0

\* C8 witness: a second render call was made after an attempt that reported
\* a fractional overflow on the left and none at the top.
C8_Witness ==
    /\ Len(rendered) >= 2
    /\ Excess(1).left > 0
    /\ Excess(1).left % SubPx # 0
    /\ Excess(1).top <= 0

\* C9: every padding box passed to the renderer has all four sides >= 0, and
\* no side shrinks from one attempt to the next.
C9_PaddingNonNegMonotone ==
    /\ \A i \in 1..Len(rendered) : \A s \in Sides : rendered[i].padding[s] >= 0
    /\ \A i \in 1..(Len(rendered) - 1) : \A s \in Sides :
          rendered[i + 1].padding[s] >= rendered[i].padding[s]

\* C9 witness: three render calls were made starting from the padding that a
\* negative per-side override normalises to, and the left side grew.
C9_Witness ==
    /\ Len(rendered) = 3
    /\ rendered[1].padding =
          normalizePadding(PadObject(Some(-2 * SubPx), Null, Null, Some(0)),
                           DEFAULT_PADDING)
    /\ rendered[3].padding.left > rendered[1].padding.left

\* C10: when all 3 attempts report overflow the invocation does not fail, no
\* fourth render call is made, and it returns the viewport-fitted markup of
\* the third call; the padding grown after the third attempt was never
\* passed to the renderer.
C10_ExhaustedReturnsThird ==
    (Len(rendered) >= 3 /\ \A i \in 1..3 : Overflows(i)) =>
        /\ Len(rendered) = 3
        /\ pc \in {"loop", "fit", "done"}
        /\ \A i \in 1..3 : rendered[i].padding # currentPadding
        /\ pc = "done" =>
              /\ result.some
              /\ fitInput = Out(3).svg
              /\ result.v = adjustSvgViewBox(Out(3).svg)

\* C10 witness: the invocation returned after three overflowing attempts,
\* the third markup differing from the second.
C10_Witness ==
    /\ pc = "done"
    /\ Len(rendered) = 3
    /\ \A i \in 1..3 : Overflows(i)
    /\ Out(3).svg # Out(2).svg
    /\ result.some

\* C11: when a render call throws on attempt k the invocation fails with that
\* same error, makes no further render call and returns no markup, also when
\* an earlier attempt had produced markup.
C11_RenderErrorPropagates ==
    /\ \A i \in 1..Len(rendered) :
          rendered[i].threw.some =>
              /\ i = Len(rendered)
              /\ pc = "failed"
              /\ failure = rendered[i].threw
              /\ result = Null
    /\ pc = "failed" => rendered[Len(rendered)].threw.some
    /\ failure.some => pc = "failed"

\* C11 witness: the second render call threw after the first had returned
\* markup and reported overflow.
C11_Witness ==
    /\ pc = "failed"
    /\ Len(rendered) = 2
    /\ rendered[1].out.some
    /\ Out(1).svg # EmptyMarkup
    /\ rendered[2].threw.some

\* the side of vegaSpec.padding when it is an object that has it
Given(side) == vegaSpecPadding[side]

\* C25 as stated: a scalar padding becomes the same value on all four sides,
\* a partial override keeps the sides that are given and takes the others
\* from the default {top:8, left:12, bottom:12, right:28}, and no padding
\* gives exactly that default.
C25_PromoteMergeDefault ==
    initialPadding.some =>
        \A side \in Sides :
            initialPadding.v[side] =
                CASE vegaSpecPadding.kind = "number" -> vegaSpecPadding.n
                  [] vegaSpecPadding.kind = "object" /\ Given(side).some -> Given(side).v
                  [] OTHER -> Pad(8 * SubPx, 12 * SubPx, 12 * SubPx, 28 * SubPx)[side]

\* C25 amended: a scalar padding becomes max(0, scalar) on all four sides, a
\* partial override gives max(0, side) for the sides that are given and the
\* default's side for the others, and no padding gives exactly the default.
C25_PromoteMergeDefaultClamped ==
    initialPadding.some =>
        \A side \in Sides :
            initialPadding.v[side] =
                CASE vegaSpecPadding.kind = "number" -> Max(0, vegaSpecPadding.n)
                  [] vegaSpecPadding.kind = "object" /\ Given(side).some ->
                        Max(0, Given(side).v)
                  [] OTHER -> Pad(8 * SubPx, 12 * SubPx, 12 * SubPx, 28 * SubPx)[side]

\* C25 witness: a partial override with a negative top, a fractional right
\* and no bottom and left has been normalised.
C25_Witness ==
    /\ initialPadding.some
    /\ vegaSpecPadding = PadObject(Some(-2 * SubPx), Null, Null, Some(5 * SubPx + 1))
    /\ initialPadding.v = Pad(0, 12 * SubPx, 12 * SubPx, 5 * SubPx + 1)

\* render call i has returned without reported bounds
BoundsAbsent(i) == rendered[i].out.some /\ ~Out(i).bounds.some

\* C29: an attempt on which the renderer returns no reported bounds is
\* treated as having no overflow: it is the last attempt, the padding stays
\* the one it was rendered with, and its markup goes to the viewport fitter;
\* on attempt 1 that makes one render call in total.
C29_AbsentBoundsStopLoop ==
    \A i \in 1..Len(rendered) :
        BoundsAbsent(i) =>
            /\ i = Len(rendered)
            /\ LoopLeft
            /\ attempt = i - 1
            /\ currentPadding = rendered[i].padding
            /\ HandedToFitter = Out(i).svg
            /\ pc = "done" => result = Some(adjustSvgViewBox(Out(i).svg))

\* C29 witness: the invocation returned after one render call that reported
\* no bounds.
C29_Witness ==
    /\ pc = "done"
    /\ Len(rendered) = 1
    /\ BoundsAbsent(1)

\* a second state of the same case, kept for reference: bounds absent on the
\* second attempt, after overflow on the first
AbsentOnSecondAttemptReached ==
    /\ pc = "done"
    /\ Len(rendered) = 2
    /\ Overflows(1)
    /\ BoundsAbsent(2)

---------------------------------------------------------------------------
(* Claims about the FormatterTransformer (checked under SpecTransform,     *)
(* SpecLabel and SpecEscape)                                               *)

\* the addresses of the objects of the tree at root
RECURSIVE ReachableFrom(_, _, _)
ReachableFrom(h, frontier, seen) ==
    IF frontier = {} THEN seen
    ELSE LET a == CHOOSE x \in frontier : TRUE
             refs == IF h[a].kind = "layer"
                     THEN {h[a].x, h[a].y, h[a].customFormatterMaps}
                          \cup {h[a].layer[i] : i \in 1..Len(h[a].layer)}
                     ELSE {}
             new == (refs \ {0}) \ (seen \cup {a})
         IN  ReachableFrom(h, (frontier \ {a}) \cup new, seen \cup {a})

Tree(h, root) == ReachableFrom(h, {root}, {})

\* C12: transformVegaLiteSpec never changes the caller's spec (its axis
\* format entries, nested layers and customFormatterMaps are the same objects
\* with the same contents afterwards), the returned tree shares no object
\* with it, and so the later size and autosize writes do not reach it.
C12_InputUntouched ==
    xpc \in {"transformed", "sized"} =>
        /\ \A a \in 1..Len(inputHeap) : heap[a] = inputHeap[a]
        /\ Tree(heap, transformedSpec) \cap Tree(inputHeap, vegaLiteSpec) = {}
        /\ Tree(heap, vegaLiteSpec) = Tree(inputHeap, vegaLiteSpec)

\* C12 witness: the size writes have been made on the tree returned for a
\* spec with a custom x axis format, nested layers and lookup maps, and the
\* returned tree carries a label expression where the input has the format.
C12_Witness ==
    /\ xpc = "sized"
    /\ inputHeap[inputHeap[vegaLiteSpec].x].format = Format(TRUE, Some("m1"))
    /\ inputHeap[vegaLiteSpec].customFormatterMaps # 0
    /\ \E c \in 1..Len(inputHeap) :
          /\ inputHeap[vegaLiteSpec].layer = <<c>>
          /\ inputHeap[c].layer # <<>>
    /\ heap[heap[transformedSpec].x].labelExpr.some
    /\ heap[transformedSpec].width.some

\* the lookup map the input's x axis format names, in creation order
InputMap == inputHeap[inputHeap[vegaLiteSpec].customFormatterMaps].table["m1"]

\* the labelExpr written on the returned tree's x axis
LabelExpr == heap[heap[transformedSpec].x].labelExpr.v

\* the expression language's reading of a labelExpr: a chain of tests
\* datum.value === 'key' ? 'value' : ... ending in datum.value, the string
\* literals running to the first unescaped quote, a backslash taking the next
\* character with it (n, r, t standing for newline, carriage return, tab), a
\* bare line terminator not being allowed inside a literal
At(tokens, i) == IF i \in 1..Len(tokens) THEN tokens[i] ELSE "EOF"

Unescape(c) ==
    CASE c = "n" -> NL [] c = "r" -> CR [] c = "t" -> TAB [] OTHER -> c

RECURSIVE LexString(_, _, _)
LexString(tokens, i, acc) ==
    LET c == At(tokens, i)
    IN  IF c = "EOF" \/ c = NL \/ c = CR
        THEN [ok |-> FALSE, str |-> acc, next |-> i]
        ELSE IF c = SQ THEN [ok |-> TRUE, str |-> acc, next |-> i + 1]
        ELSE IF c = BS
        THEN IF At(tokens, i + 1) = "EOF"
             THEN [ok |-> FALSE, str |-> acc, next |-> i]
             ELSE LexString(tokens, i + 2, Append(acc, Unescape(At(tokens, i + 1))))
        ELSE LexString(tokens, i + 1, Append(acc, c))

RECURSIVE ParseChain(_, _, _)
ParseChain(tokens, i, acc) ==
    IF At(tokens, i) # "datum.value" THEN [ok |-> FALSE, tests |-> acc]
    ELSE IF i = Len(tokens) THEN [ok |-> TRUE, tests |-> acc]
    ELSE IF At(tokens, i + 1) # " === " \/ At(tokens, i + 2) # SQ
    THEN [ok |-> FALSE, tests |-> acc]
    ELSE LET k == LexString(tokens, i + 3, <<>>)
         IN  IF ~k.ok \/ At(tokens, k.next) # " ? " \/ At(tokens, k.next + 1) # SQ
             THEN [ok |-> FALSE, tests |-> acc]
             ELSE LET v == LexString(tokens, k.next + 2, <<>>)
                  IN  IF ~v.ok \/ At(tokens, v.next) # " : "
                      THEN [ok |-> FALSE, tests |-> acc]
                      ELSE ParseChain(tokens, v.next + 1,
                                      Append(acc, Entry(k.str, v.str)))

Parsed == ParseChain(LabelExpr, 1, <<>>)

\* the value of a chain of tests on a raw value
RECURSIVE Evaluate(_, _)
Evaluate(tests, raw) ==
    IF tests = <<>> THEN raw
    ELSE IF raw = Head(tests).key THEN Head(tests).value
    ELSE Evaluate(Tail(tests), raw)

\* the value of the first entry of the map whose key is raw, raw without one
Lookup(map, raw) ==
    IF \E i \in 1..Len(map) : map[i].key = raw
    THEN map[CHOOSE i \in 1..Len(map) :
               /\ map[i].key = raw
               /\ \A j \in 1..(i - 1) : map[j].key # raw].value
    ELSE raw

RawValues == LabelKeys \cup {<<"z">>, <<>>}

Keys(entries) == [i \in 1..Len(entries) |-> entries[i].key]

\* C13 as stated: the labelExpr tests the keys in the map's creation order
\* (k1 first) and, evaluated on a raw value, yields the value of the first
\* entry whose key equals it and the raw value itself when no key matches.
C13_TestsInInsertionOrder ==
    xpc \in {"transformed", "sized"} =>
        /\ Parsed.ok
        /\ Keys(Parsed.tests) = Keys(InputMap)
        /\ \A raw \in RawValues : Evaluate(Parsed.tests, raw) = Lookup(InputMap, raw)

\* C13 amended: the labelExpr tests every key of the map once, the keys that
\* are array indices first in ascending numeric order and the other keys
\* after them in creation order, and, evaluated on a raw string value,
\* yields the value of the entry whose key equals it and the raw value
\* itself when no key matches.
C13_TestsInEnumerationOrder ==
    xpc \in {"transformed", "sized"} =>
        LET tested == Keys(Parsed.tests)
            created == Keys(InputMap)
            Position(k) == CHOOSE i \in 1..Len(created) : created[i] = k
        IN  /\ Parsed.ok
            /\ Len(tested) = Len(created)
            /\ \A i \in 1..Len(created) : \E j \in 1..Len(tested) : tested[j] = created[i]
            /\ \A i, j \in 1..Len(tested) :
                  i < j =>
                      /\ IsArrayIndex(tested[j]) => IsArrayIndex(tested[i])
                      /\ (IsArrayIndex(tested[i]) /\ IsArrayIndex(tested[j])) =>
                            IndexValue(tested[i]) < IndexValue(tested[j])
                      /\ (~IsArrayIndex(tested[i]) /\ ~IsArrayIndex(tested[j])) =>
                            Position(tested[i]) < Position(tested[j])
            /\ \A raw \in RawValues :
                  Evaluate(Parsed.tests, raw) = Lookup(InputMap, raw)

\* C13 witness: the labelExpr was built for a map created with the key "10"
\* before the key "2" and a named key.
C13_Witness ==
    /\ xpc = "transformed"
    /\ Len(InputMap) = 3
    /\ InputMap[1].key = <<"1", "0">>
    /\ InputMap[2].key = <<"2">>
    /\ ~IsArrayIndex(InputMap[3].key)

\* C14: for every key and value over strings that may contain backslash,
\* single quote, newline, carriage return and tab, reading the two quoted
\* literals of the labelExpr gives back exactly the key and the value, and no
\* embedded character ends a literal early (the expression reads as one test
\* followed by datum.value).
C14_EscapeRoundTrip ==
    xpc \in {"transformed", "sized"} =>
        /\ Parsed.ok
        /\ Parsed.tests = InputMap

\* C14 witness: the labelExpr was built for a key holding a backslash
\* followed by a single quote and a value holding a line terminator.
C14_Witness ==
    /\ xpc = "transformed"
    /\ InputMap[1].key = <<BS, SQ>>
    /\ InputMap[1].value \in {<<NL>>, <<CR>>}

\* the layer nodes reachable from the root through layer arrays
LayerNodes(h, root) == {a \in Tree(h, root) : h[a].kind = "layer"}

\* the x and y axes of the layer nodes of the returned tree
ReturnedAxes ==
    UNION { {heap[a].x, heap[a].y} \ {0} : a \in LayerNodes(heap, transformedSpec) }

\* the axis of the caller's spec that a returned axis was cloned from
InputAxis(axis) == inputHeap[axis - Len(inputHeap)]

HasCustomFormat(o) == o.format.some /\ o.format.v.custom

\* C23: after transformVegaLiteSpec no node reachable from the root through
\* layer arrays, at any depth, keeps an axis custom-format marker: each such
\* x or y axis has lost its format and has a labelExpr; and the returned spec
\* has no customFormatterMaps table.
C23_NoCustomFormatLeft ==
    xpc \in {"transformed", "sized"} =>
        /\ \A axis \in ReturnedAxes :
              /\ ~HasCustomFormat(heap[axis])
              /\ HasCustomFormat(InputAxis(axis)) =>
                    /\ heap[axis].format = Null
                    /\ heap[axis].labelExpr.some
              /\ ~HasCustomFormat(InputAxis(axis)) => heap[axis] = InputAxis(axis)
        /\ heap[transformedSpec].customFormatterMaps = 0

\* C23 witness: the spec returned had custom formats on the root's x axis,
\* on a child layer's y axis and on a grandchild layer's x axis, and a
\* customFormatterMaps table.
C23_Witness ==
    /\ xpc = "transformed"
    /\ inputHeap[vegaLiteSpec].customFormatterMaps # 0
    /\ HasCustomFormat(inputHeap[inputHeap[vegaLiteSpec].x])
    /\ \E c, g \in 1..Len(inputHeap) :
          /\ inputHeap[vegaLiteSpec].layer = <<c>>
          /\ inputHeap[c].layer = <<g>>
          /\ HasCustomFormat(inputHeap[inputHeap[c].y])
          /\ HasCustomFormat(inputHeap[inputHeap[g].x])
    /\ Cardinality(ReturnedAxes) = 3

\* the lookup table of the caller's spec: map name -> entries
InputTable ==
    IF inputHeap[vegaLiteSpec].customFormatterMaps = 0 THEN <<>>
    ELSE inputHeap[inputHeap[vegaLiteSpec].customFormatterMaps].table

\* the axis has a custom format that names no entry of the lookup table
NamesNoMap(o) ==
    /\ HasCustomFormat(o)
    /\ ~o.format.v.mapName.some \/ o.format.v.mapName.v \notin DOMAIN InputTable

\* C24: an axis whose custom format names no entry of the lookup table (or
\* whose spec has no table) still loses its format and receives the identity
\* expression datum.value as labelExpr, which yields every raw value
\* unchanged.
C24_MissingMapGivesIdentity ==
    xpc \in {"transformed", "sized"} =>
        \A axis \in ReturnedAxes :
            NamesNoMap(InputAxis(axis)) =>
                /\ heap[axis].format = Null
                /\ heap[axis].labelExpr = Some(<<"datum.value">>)
                /\ LET parsed == ParseChain(heap[axis].labelExpr.v, 1, <<>>)
                   IN  /\ parsed.ok
                       /\ \A raw \in RawValues : Evaluate(parsed.tests, raw) = raw

\* C24 witness: the spec returned had no lookup table and a custom format
\* on its x axis, and a child layer whose y axis named another missing map.
C24_Witness ==
    /\ xpc = "transformed"
    /\ inputHeap[vegaLiteSpec].customFormatterMaps = 0
    /\ NamesNoMap(inputHeap[inputHeap[vegaLiteSpec].x])
    /\ \E axis \in ReturnedAxes :
          /\ axis # heap[transformedSpec].x
          /\ NamesNoMap(InputAxis(axis))

\* the returned tree as transformVegaLiteSpec left it, before the size writes
BeforeSizing == transformVegaLiteSpec(inputHeap, vegaLiteSpec).heap

\* C26: before rendering, the spec's width is max(1, requested width); its
\* height is max(1, requested height) unless the height is a per-category
\* step object, which is left exactly as it was; nothing but width, height
\* and autosize is written.
C26_SizeFields ==
    xpc = "sized" =>
        LET root == heap[transformedSpec]
            before == BeforeSizing[transformedSpec]
        IN  /\ root.width = Some(Max(1, request.v.width))
            /\ before.height.kind = "step" => root.height = before.height
            /\ before.height.kind # "step" =>
                  root.height = NumberHeight(Max(1, request.v.height))
            /\ before.height = inputHeap[vegaLiteSpec].height
            /\ \A a \in 1..Len(heap) : a # transformedSpec => heap[a] = BeforeSizing[a]
            /\ root = [before EXCEPT !.width = root.width, !.height = root.height,
                                     !.autosize = root.autosize]

\* C26 witness: the size writes were made for a requested size of 0 x 0 on
\* a spec whose height is a step object.
C26_Witness ==
    /\ xpc = "sized"
    /\ request = Some([width |-> 0, height |-> 0])
    /\ inputHeap[vegaLiteSpec].height = StepHeight(30)
    /\ heap[transformedSpec].width = Some(1)
    /\ heap[transformedSpec].height = StepHeight(30)

---------------------------------------------------------------------------
(* Claims about the GeometryExtractor (under SpecScan, SpecPath, SpecText) *)

IsGroupOpen(t) == t.tag = "g" /\ ~t.selfClosing

\* the group opened by tag j is still open where tag i occurs: no prefix of
\* the tags between them closes more groups than it opens
OpenAt(body, j, i) ==
    /\ j < i
    /\ IsGroupOpen(body[j])
    /\ \A k \in (j + 1)..(i - 1) :
          Cardinality({n \in (j + 1)..k : body[n].tag = "/g"})
              <= Cardinality({n \in (j + 1)..k : IsGroupOpen(body[n])})

RECURSIVE SumOf(_, _, _)
SumOf(body, js, f) ==
    IF js = {} THEN 0
    ELSE LET j == CHOOSE x \in js : TRUE
         IN  body[j][f] + SumOf(body, js \ {j}, f)

\* the sum of the translations of the groups open at tag i, plus its own
Offset(body, i) ==
    LET open == {j \in 1..(i - 1) : OpenAt(body, j, i)}
        own == IF body[i].transform.some THEN body[i].transform.v
               ELSE [tx |-> 0, ty |-> 0]
    IN  [tx |-> (SumOf(body, open, "a") + own.tx) * Res,
         ty |-> (SumOf(body, open, "b") + own.ty) * Res]

\* the indices of the tags that contribute a box, in order
RECURSIVE Boxed(_, _)
Boxed(body, i) ==
    IF i > Len(body) THEN <<>>
    ELSE (IF ElementBounds(body[i]).some THEN <<i>> ELSE <<>>) \o Boxed(body, i + 1)

ShiftBox(box, by) ==
    [box EXCEPT !.minX = @ + by.tx, !.minY = @ + by.ty,
                !.maxX = @ + by.tx, !.maxY = @ + by.ty]

\* C15: a leaf shape's box is offset by the sum of the translations of
\* exactly the groups open where the shape occurs, plus the shape's own
\* translation; closed groups contribute nothing; a circle inside nested
\* groups translated by (10,20) and (5,5) is offset by (15,25).
C15_OffsetIsSumOfOpenGroups ==
    scanPc = "done" =>
        LET body == svg.body
            boxed == Boxed(body, 1)
        IN  /\ Len(scanBounds) = Len(boxed)
            /\ \A k \in 1..Len(boxed) :
                  scanBounds[k] =
                      ShiftBox(ElementBounds(body[boxed[k]]).v, Offset(body, boxed[k]))
            /\ body = <<GOpen(10, 20), GOpen(5, 5), Circle(50, 50, 10)>> =>
                  scanBounds = <<Box((50 - 10 + 15) * Res, (50 - 10 + 25) * Res,
                                     (50 + 10 + 15) * Res, (50 + 10 + 25) * Res)>>

\* C15 witness: the scan has finished on a circle inside two nested groups
\* translated by (10,20) and (5,5).
C15_Witness ==
    /\ scanPc = "done"
    /\ svg.body = <<GOpen(10, 20), GOpen(5, 5), Circle(50, 50, 10)>>

\* C15 second witness state, kept for reference: a shape after a closed group
C15_ClosedGroupReached ==
    /\ scanPc = "done"
    /\ svg.body = <<GOpen(10, 20), GClose, Circle(50, 50, 10)>>

\* C16: a circle with attributes cx, cy and r >= 0 and no translation in
\* force has the box (cx - r, cy - r)-(cx + r, cy + r); markup whose only
\* shape is circle cx=50 cy=50 r=10 has content bounds (40,40)-(60,60).
C16_CircleBox ==
    scanPc = "done" =>
        LET body == svg.body
            boxed == Boxed(body, 1)
        IN  /\ \A k \in 1..Len(boxed) :
                  LET t == body[boxed[k]]
                  IN  (/\ t.tag = "circle"
                       /\ t.nonNumeric = {}
                       /\ Offset(body, boxed[k]) = [tx |-> 0, ty |-> 0]) =>
                          scanBounds[k] = Box((t.a - t.c) * Res, (t.b - t.c) * Res,
                                              (t.a + t.c) * Res, (t.b + t.c) * Res)
            /\ body = <<Circle(50, 50, 10)>> =>
                  scanResult = Some(Box(40 * Res, 40 * Res, 60 * Res, 60 * Res))

\* C16 witness: the scan has finished on markup whose only shape is the
\* circle cx=50 cy=50 r=10.
C16_Witness ==
    /\ scanPc = "done"
    /\ svg.body = <<Circle(50, 50, 10)>>

\* the points a path's outline passes through at the ends of its segments,
\* as the path grammar defines them: Z draws back to the start of the
\* current subpath, and a command after Z starts from there
RECURSIVE DrawnPoints(_, _)
DrawnPoints(d, st) ==
    IF d = <<>> THEN st.points
    ELSE
    LET m == Head(d)
        p == m.params
        to == CASE m.command \in {"M", "L"} ->
                      Point(Coord(m.isRelative, st.current.x, p[1]),
                            Coord(m.isRelative, st.current.y, p[2]))
                [] m.command = "H" ->
                      Point(Coord(m.isRelative, st.current.x, p[1]), st.current.y)
                [] m.command = "V" ->
                      Point(st.current.x, Coord(m.isRelative, st.current.y, p[1]))
                [] m.command = "C" ->
                      Point(Coord(m.isRelative, st.current.x, p[5]),
                            Coord(m.isRelative, st.current.y, p[6]))
                [] m.command = "Q" ->
                      Point(Coord(m.isRelative, st.current.x, p[3]),
                            Coord(m.isRelative, st.current.y, p[4]))
                [] OTHER -> st.start
    IN  DrawnPoints(Tail(d),
            IF m.command = "M"
            THEN [current |-> to, start |-> to, points |-> st.points]
            ELSE [current |-> to, start |-> st.start,
                  points |-> st.points \cup {st.current, to}])

PathData == svg.body[1].path

\* C17: for every path made of M, L, H, V, C, Q and Z commands in absolute or
\* relative form, also with several subpaths, the box of getPathBounds
\* contains every point the drawn path passes through.
C17_PathBoxContainsDrawnPoints ==
    scanPc = "done" =>
        \A pt \in DrawnPoints(PathData,
                              [current |-> Point(0, 0), start |-> Point(0, 0),
                               points |-> {}]) :
            /\ scanResult.some
            /\ scanResult.v.minX <= pt.x * Res /\ pt.x * Res <= scanResult.v.maxX
            /\ scanResult.v.minY <= pt.y * Res /\ pt.y * Res <= scanResult.v.maxY

\* the number of groups open after the tags of a prefix: an open adds one,
\* a close removes one when there is one, a self-closing group changes nothing
RECURSIVE OpenGroups(_, _)
OpenGroups(body, n) ==
    IF n = 0 THEN 0
    ELSE LET before == OpenGroups(body, n - 1)
         IN  CASE IsGroupOpen(body[n]) -> before + 1
               [] body[n].tag = "/g" -> IF before > 0 THEN before - 1 ELSE 0
               [] OTHER -> before

\* C28: during the scan of any tag sequence, balanced or not, the transform
\* stack is never empty and its bottom frame stays (0,0); a group close
\* without an open group and a self-closing group leave the stack as it is;
\* the depth is 1 plus the number of group opens not yet closed.
C28_StackNeverEmpty ==
    /\ [](/\ Len(scanStack) >= 1
          /\ scanStack[1] = [tx |-> 0, ty |-> 0]
          /\ Len(scanStack) = 1 + OpenGroups(svg.body, scanPos - 1))
    /\ [][scanPc = "scanning" /\ scanPos <= Len(svg.body) =>
            LET t == svg.body[scanPos]
            IN  /\ (t.tag = "/g" /\ Len(scanStack) = 1) => scanStack' = scanStack
                /\ (t.tag = "g" /\ t.selfClosing) => scanStack' = scanStack]_vars

\* C28 witness: the scan has passed a group close with no open group, then a
\* self-closing group, then a group open.
C28_Witness ==
    /\ scanPos = 4
    /\ svg.body = <<GClose, GSelfClosing(7, 7), GOpen(10, 20)>>
    /\ Len(scanStack) = 2

\* a shape whose geometry cannot be read
IsMalformed(t) ==
    \/ t.tag = "path" /\ ("d" \in t.missing \/ ~getPathBounds(t.path).some)
    \/ t.tag = "circle" /\ (t.missing \cup t.nonNumeric) \cap {"a", "b", "c"} # {}
    \/ t.tag \in {"line", "rect"} /\ (t.missing \cup t.nonNumeric) # {}
    \/ t.tag = "text" /\ (t.missing \cup t.nonNumeric) \cap {"a", "b"} # {}

IsReadable(t) == ~IsMalformed(t)

\* C18: a shape whose geometry cannot be parsed (unparseable path data, a
\* missing or a non-numeric geometry attribute) contributes no box and does
\* not abort the extraction: the content bounds equal those of the markup
\* without the malformed elements.
C18_MalformedShapeIgnored ==
    scanPc = "done" =>
        scanResult =
            calculateSvgContentBounds([svg EXCEPT !.body = SelectSeq(@, IsReadable)])

\* what does hold for C18: shapes with unreadable path data or a missing
\* attribute are skipped
C18_UnreadableOrMissingIgnored ==
    (scanPc = "done" /\ \A i \in 1..Len(svg.body) : svg.body[i].nonNumeric = {}) =>
        scanResult =
            calculateSvgContentBounds([svg EXCEPT !.body = SelectSeq(@, IsReadable)])

\* the font size of a text element: its attribute, 14 without one
FontSizeOf(t) == IF "c" \in t.missing THEN 14 ELSE t.c

\* C21: a text element at (x, y) with font size f and n characters of
\* content has a box centred horizontally on x with half-width 0.6 * n * f
\* when n > 0 and 5 * f without content, spanning vertically from
\* y - 1.2 * f to y + 0.5 * f.
C21_TextBox ==
    scanPc = "done" =>
        LET body == svg.body
            boxed == Boxed(body, 1)
        IN  \A k \in 1..Len(boxed) :
                LET t == body[boxed[k]]
                    f == FontSizeOf(t)
                    halfWidth == IF t.d > 0 THEN (6 * t.d * f * Res) \div 10
                                 ELSE 5 * f * Res
                IN  t.tag = "text" =>
                        scanBounds[k] =
                            ShiftBox(Box(t.a * Res - halfWidth,
                                         t.b * Res - (12 * f * Res) \div 10,
                                         t.a * Res + halfWidth,
                                         t.b * Res + (5 * f * Res) \div 10),
                                     Offset(body, boxed[k]))

\* what the code computes for a text element: half-width 0.3 * n pixels
\* (2.5 * f without content), from y - 1.2 * f to y + 0.6 * f
C21_TextBoxAsComputed ==
    scanPc = "done" =>
        LET body == svg.body
            boxed == Boxed(body, 1)
        IN  \A k \in 1..Len(boxed) :
                LET t == body[boxed[k]]
                    f == FontSizeOf(t)
                    halfWidth == IF t.d > 0 THEN (3 * t.d * Res) \div 10
                                 ELSE (5 * f * Res) \div 2
                IN  t.tag = "text" =>
                        scanBounds[k] =
                            ShiftBox(Box(t.a * Res - halfWidth,
                                         t.b * Res - (12 * f * Res) \div 10,
                                         t.a * Res + halfWidth,
                                         t.b * Res + (6 * f * Res) \div 10),
                                     Offset(body, boxed[k]))

---------------------------------------------------------------------------
(* Claims about concurrent and end-to-end invocations (checked under       *)
(* SpecConcurrent, termination under FairSpecConcurrent)                   *)

\* what an invocation with this chart does when it runs alone
RECURSIVE RunLoop(_, _, _, _)
RunLoop(chart, n, padding, markup) ==
    IF ~(n < MaxAttempts)
    THEN [status |-> "done", svg |-> adjustSvgViewBox(markup), error |-> Null]
    ELSE LET r == RenderChart(chart, padding)
         IN  IF r.threw.some
             THEN [status |-> "failed", svg |-> EmptyMarkup, error |-> r.threw]
             ELSE LET adjustment ==
                          computePaddingAdjustment(r.out.v.bounds, r.out.v.viewWidth,
                                                   r.out.v.viewHeight)
                  IN  IF ~adjustment.some
                      THEN [status |-> "done", svg |-> adjustSvgViewBox(r.out.v.svg),
                            error |-> Null]
                      ELSE RunLoop(chart, n + 1, addPadding(padding, adjustment.v),
                                   r.out.v.svg)

RunAlone(chart) ==
    RunLoop(chart, 0, normalizePadding(chart.padding, DEFAULT_PADDING), EmptyMarkup)

Settled(i) == invocations[i].pc \in {"done", "failed"}

\* C19: of N concurrent invocations interleaving at their render calls, each
\* one that does not fail returns the image it returns when run alone, one
\* whose render call throws fails as it does alone, and every invocation
\* settles whatever its siblings do.
C19_InvocationsIsolated ==
    /\ [](\A i \in Invocations :
            LET alone == RunAlone(invocations[i].chart)
            IN  /\ invocations[i].pc = "done" =>
                      /\ alone.status = "done"
                      /\ invocations[i].result = Some(alone.svg)
                /\ invocations[i].pc = "failed" =>
                      /\ alone.status = "failed"
                      /\ invocations[i].failure = alone.error
                      /\ invocations[i].result = Null)
    /\ <>(\A i \in Invocations : Settled(i))

\* C19 witness: one invocation has failed on its second render call, made
\* between the first and the second render call of a sibling that went on
\* to return its image.
C19_Witness ==
    \E i, j \in Invocations :
        /\ invocations[i].pc = "failed"
        /\ invocations[j].pc = "done"
        /\ Len(invocations[i].calls) = 2
        /\ Len(invocations[j].calls) >= 2
        /\ invocations[j].calls[1].order < invocations[i].calls[2].order
        /\ invocations[i].calls[2].order < invocations[j].calls[2].order

\* invocation i was asked for 800 x 400, its first render call reported
\* x1 = -5 and its second, made with the corrected padding, no overflow
LeftOverflowCorrected(i) ==
    LET inv == invocations[i]
    IN  /\ inv.pc = "done"
        /\ inv.chart.width = 800 /\ inv.chart.height = 400
        /\ Len(inv.calls) = 2
        /\ inv.calls[1].out.v.bounds.v.x1 = -5 * SubPx
        /\ computePaddingAdjustment(inv.calls[2].out.v.bounds,
                                    inv.calls[2].out.v.viewWidth,
                                    inv.calls[2].out.v.viewHeight) = Null

---------------------------------------------------------------------------
(* Claims about the AssetManager (checked under SpecAsset) *)

\* the validateSignature call just made carried the signature that
\* generateSignature yields for its assetId and expires under its secret
CarriesOwnSignature ==
    validation.v.providedSig =
        generateSignature(validation.v.config, validation.v.assetId, validation.v.expires)

\* C22: validateSignature returns 'expired' whenever now > expires, 'valid'
\* when now <= expires and the signature is the one generateSignature yields
\* for exactly that assetId and expires under the same secret, and 'invalid'
\* when now <= expires and the assetId, the expires or the signature
\* differs; a signature is never reported 'valid' after its expiry.
C22_SignatureVerdict ==
    validation.some =>
        /\ validation.v.now > validation.v.expires => validation.v.outcome = "expired"
        /\ (validation.v.now <= validation.v.expires /\ CarriesOwnSignature) =>
              validation.v.outcome = "valid"
        /\ (validation.v.now <= validation.v.expires /\ ~CarriesOwnSignature) =>
              validation.v.outcome = "invalid"
        /\ validation.v.outcome = "valid" => validation.v.now <= validation.v.expires

\* what does hold for C22: 'expired' exactly after the expiry, 'valid' only
\* before it and only for the own signature, and never 'valid' for a
\* signature made for another assetId, expires or secret
C22_NeverValidUnlessOwnAndUnexpired ==
    validation.some =>
        /\ validation.v.outcome = "expired" <=> validation.v.now > validation.v.expires
        /\ validation.v.outcome = "valid" <=>
              (validation.v.now <= validation.v.expires /\ CarriesOwnSignature)
        /\ (/\ signature.some
            /\ validation.v.providedSig = signature.v.sig
            /\ validation.v.outcome = "valid") =>
               /\ signature.v.assetId = validation.v.assetId
               /\ signature.v.expires = validation.v.expires
               /\ signature.v.config = validation.v.config

---------------------------------------------------------------------------
(* Claims about the tool call (checked under SpecTool) *)

\* C30: the tool renders and stores all selected visualizations concurrently
\* and returns a success result only if every render and every store
\* completed, with one visualization per callback in input order; as soon as
\* one of them fails the whole call fails with no visualization, and it stays
\* failed when siblings complete and store their assets afterwards.
C30_AllOrNothing ==
    /\ [](/\ call.status = "ok" =>
                /\ \A i \in Invocations : tasks[i].pc = "done"
                /\ call.visualizations = [i \in Invocations |-> tasks[i].returned]
                /\ assetStrategy \in {"local", "s3"} =>
                      \A i \in Invocations : tasks[i].assetId.v \in stored
          /\ (\E i \in Invocations : tasks[i].pc = "failed") =>
                /\ call.status = "error"
                /\ call.visualizations = <<>>
          /\ call.status = "error" => \E i \in Invocations : tasks[i].pc = "failed")
    /\ [][call.status # "pending" => call' = call]_vars

\* C30 witness: the call has failed on one visualization's render while a
\* sibling has rendered, stored its asset and returned its visualization.
C30_Witness ==
    \E i, j \in Invocations :
        /\ call.status = "error"
        /\ tasks[i].pc = "failed"
        /\ tasks[i].error \in {Some(e) : e \in RenderErrors}
        /\ tasks[j].pc = "done"
        /\ tasks[j].assetId.v \in stored
        /\ tasks[j].returned.some

\* a second state of the same case, kept for reference: two callbacks are
\* writing their assets at the same time
BothWritingReached ==
    \E i, j \in Invocations :
        /\ i # j
        /\ tasks[i].pc = "writing"
        /\ tasks[j].pc = "writing"

=============================================================================
